---- MODULE Spec2Model ----
(***************************************************************************)
(* Model of the self-regulating memory engine (thinking_engine_14.0.py,    *)
(* with the loop variants of Thinking_engine_13.0.py / 20.0.py).           *)
(*                                                                         *)
(* Encoding of JSON values                                                 *)
(*   numbers   : integers in thousandths (0.15 is 150, 5.0 sec is 5000)    *)
(*   id        : 0 is a falsy/absent id, n > 0 a stored id string,          *)
(*               n < 0 the |n|-th value handed out by uuid.uuid4()         *)
(*   content   : a string; "" is falsy; "#5" is the JSON number 5 and      *)
(*               "#0" the JSON number 0 (non-string contents)              *)
(*   tags      : a sequence; element n > 0 is the string "t<n>" (ordered   *)
(*               as n), element n < 0 is the JSON number |n|               *)
(*   last_seen : n >= 0 is the canonical stamp of second n                 *)
(*   absent    : the keys the JSON object does not have                    *)
(*   bad       : the keys whose value has the wrong type for the           *)
(*               conversion applied to it (a non-numeric score, tags that  *)
(*               are not a list, a stamp not in canonical form, ...)       *)
(***************************************************************************)
EXTENDS Integers, Sequences, FiniteSets, TLC

VARIABLES
    store,        \* mem["core_memories"] of the persisted document
    prev,         \* core_memories as read by the last heal_memory call
    origin,       \* for each record kept by the last heal: its index in prev
    uuidCount,    \* number of uuid4 values stored as ids so far
    now,          \* the second iso_now() reports
    lastOp,       \* last store operation: "init" | "heal" | "heal_raised" |
                  \*                       "recall" | "evolve"
    healStreak,   \* completed heal passes in a row (capped at 2)
    pulse,        \* last HealingPulse with the returned resilience
    prevPulse,    \* the pulse before it
    recentValence,\* signals["recent_affect"]["valence"]
    recalled,     \* the list the last recall_core_memories returned
    evolves,      \* number of evolve_engine calls so far
    changed       \* changed count returned by the last evolve_engine

storeVars == <<store, prev, origin, uuidCount, now, lastOp, healStreak,
               pulse, prevPulse, recentValence, recalled, evolves, changed>>

VARIABLES
    sleep_sec,      \* signals["autonomy"]["sleep_sec"] of the persisted document
    rolling_ms,     \* signals["autonomy"]["rolling_ms"]
    rolling_errors, \* signals["autonomy"]["rolling_errors"]
    last_prune,     \* signals["autonomy"]["last_prune"]: <<>> is None
    returned,       \* last return value of autonomy_controller: <<>> before
                    \* the first call, else <<[sleep_sec, prune]>>
    commands,       \* the document in imports/commands.json
    effects,        \* the effects the last import_commands_if_any returned
    adjusts,        \* number of autonomy_controller calls so far
    imports         \* number of import_commands_if_any calls so far

autoVars == <<sleep_sec, rolling_ms, rolling_errors, last_prune, returned,
              commands, effects, adjusts, imports>>

VARIABLES
    session,        \* the session log: the "kind" of each event, "#5" for an
                    \* entry that is not a JSON object
    reflection,     \* the local "reflection" (and "affect") of self_mechanism:
                    \* <<>> while unbound, else <<insight>>
    pc,             \* the position of self_mechanism
    cycle_error,    \* the local cycle_error of self_mechanism
    exported,       \* what the last export wrote: <<>> before the first
    cycles          \* completed cooldowns

loopVars == <<session, reflection, pc, cycle_error, exported, cycles>>

VARIABLES
    counts,         \* ok_count and total as heal_memory has counted them
    rounded         \* <<>> until the resilience of counts is computed, then
                    \* <<resilience>>

countVars == <<counts, rounded>>

VARIABLES
    audit,          \* the history of reports/audit_log.json (20.0)
    seal            \* for each artifact of 20.0 the state of the file and of
                    \* its .sha record: "missing" (no file), "unsealed" (a
                    \* file without a record), "sealed" (the record holds
                    \* the hash of the file), "stale" (it holds another hash)

guardVars == <<audit, seal>>

VARIABLES
    file,           \* one guarded artifact: <<>> when absent, else <<bytes>>
    sha,            \* its .sha record: <<>> when absent, else <<sha256>>
    verdict,        \* what the last _verify_hash returned: <<>> before
    lastFileOp      \* what happened to the artifact last: "none" | "write"
                    \* | "tamper" (one change of the bytes after a write)
                    \* | "other"

sealVars == <<file, sha, verdict, lastFileOp>>

VARIABLES
    warned,         \* artifacts with a mismatch recorded since they were
                    \* last changed outside the guard
    trusted         \* artifacts read and sealed again while their bytes did
                    \* not match the record and no mismatch was recorded

trustVars == <<warned, trusted>>

VARIABLES
    hpc,            \* the request handler: "idle" | "verify"
    data,           \* the document the handler read for this request
    response,       \* the last outcome of a request: <<>> before
    wpc,            \* _export_write in the loop: "idle" | "record"
    requests        \* requests so far

mirrorVars == <<hpc, data, response, wpc, requests>>

VARIABLES
    inbox,          \* the queue between _input_thread and the loop
    stop,           \* stop_event
    slices,         \* slices left of the current sleep
    drained,        \* commands taken from the inbox in this cycle
    produced,       \* lines entered at the console so far
    afterStop       \* slices of the current sleep completed with stop set

consoleVars == <<inbox, stop, slices, drained, produced, afterStop>>

VARIABLES
    tmpfile,        \* path.tmp: <<>> when absent, else <<bytes>>
    pending,        \* the bytes a write in progress still has to put out
    wstep,          \* _write_json_raw: "idle" | "writing" | "closed"
    committed,      \* the content of the file before the write in progress
    loaded          \* what _load_memory returned: <<>> before

diskVars == <<tmpfile, pending, wstep, committed, loaded>>

VARIABLES
    diskdoc,        \* the memory document of 7.0 / 8.5 / 14.0 on disk
    memdata,            \* Memory.data after the last load: <<>> before
    orig,           \* the document as it was first found on disk
    loads           \* loads so far

schemaVars == <<diskdoc, memdata, orig, loads>>

VARIABLES
    lread,          \* the audit history the loop read and has not yet
                    \* written back: <<>> when it is not appending
    hread,          \* the same for the request handler
    appended        \* every audit event appended, in the order of the writes

appendVars == <<lread, hread, appended>>

VARIABLES
    memshape,       \* the shape of each top-level field of the memory
                    \* document of 20.0 on disk
    step20,         \* the phase the cycle of 20.0 is about to run
    failed20,       \* cycles that ended in the except branch of the loop
    passed20        \* cycles that ran all their phases

shapeVars == <<memshape, step20, failed20, passed20>>

VARIABLES
    sample,         \* the argument of analyze_emotion
    analysed        \* what analyze_emotion returned for it: <<>> before

emotionVars == <<sample, analysed>>

moreVars == <<schemaVars, appendVars, shapeVars, emotionVars>>

lateVars == <<consoleVars, diskVars, moreVars>>

\* the state of Thinking_engine_20.0.py that 14.0 does not have
engine20Vars == <<guardVars, sealVars, trustVars, mirrorVars, lateVars>>

vars == <<storeVars, autoVars, loopVars, countVars, engine20Vars>>

(*************************** bounds ****************************************)
MaxLen == 3       \* longest raw core_memories list of the healing runs
MaxCycleLen == 2  \* longest raw core_memories list of the cycle runs
MaxTime == 1      \* last second the clock reaches
MaxEvolves == 1   \* evolve_engine calls in one run
MaxAdjusts == 2   \* autonomy_controller calls in one run
MaxImports == 2   \* import_commands_if_any calls in one run
MaxSpan == 6      \* width of the ranges the record counts are drawn from
MaxBody == 1      \* length of the body of a payload
MaxCycles20 == 2  \* cycles of the 20.0 loop in one run
PruneCeiling == 3 \* prune_max_items of the pruning runs (1000 in the code)
PruneFloor == 2   \* prune_floor_keep of the pruning runs (50 in the code)
MaxStored == 2    \* most records of a store that is ranked
MaxAppends == 4   \* events appended to the audit log in one run
MaxLoads == 2     \* loads of one memory document
MaxInputs == 2    \* lines entered at the console in one run
MaxMembers == 4   \* distinct keys of a memory document on disk
MaxRequests == 2  \* requests to the local mirror in one run
MaxVerifies == 1  \* audited verifications of the one artifact in one run
MaxShapeCycles == 3 \* cycles of the 20.0 loop over one memory document
MaxPieces == 2    \* pieces a text given to analyze_emotion is made of
MaxKept == 3      \* most records of a store that is recalled from in cycles
TopLimit == 1     \* the limit recall is called with in those cycles

(*************************** helpers ***************************************)
Max(a, b) == IF a >= b THEN a ELSE b
Min(a, b) == IF a <= b THEN a ELSE b

\* _clip(v, lo, hi) = max(lo, min(hi, v))
Clip(v, lo, hi) == Max(lo, Min(hi, v))

Abs(n) == IF n < 0 THEN 0 - n ELSE n

\* round(n/d, 0) on exact rationals, ties to even (d > 0)
RoundDiv(n, d) ==
    LET q == n \div d
        r == n - q * d
    IN  IF 2 * r < d THEN q
        ELSE IF 2 * r > d THEN q + 1
        ELSE IF q % 2 = 0 THEN q ELSE q + 1

RECURSIVE Insert(_, _)
Insert(x, s) ==
    IF s = <<>> THEN <<x>>
    ELSE IF x <= Head(s) THEN <<x>> \o s
    ELSE <<Head(s)>> \o Insert(x, Tail(s))

\* sorted(tags) on a list whose elements are mutually comparable
RECURSIVE Sorted(_)
Sorted(s) == IF s = <<>> THEN <<>> ELSE Insert(Head(s), Sorted(Tail(s)))

Range(s) == {s[i] : i \in 1..Len(s)}

\* sorted() raises TypeError when it has to compare a str with an int
SortRaises(tags) ==
    /\ Len(tags) >= 2
    /\ \E i, j \in 1..Len(tags) : tags[i] > 0 /\ tags[j] < 0

(*************************** records ***************************************)
FieldNames == {"id", "content", "tags", "score", "last_seen", "health",
               "penalty", "affect"}

\* REQUIRED_FIELDS
RequiredFields == {"id", "content", "tags", "score", "last_seen"}

HealthValues == {"ok", "healed", "anomalous"}

BaseAffect == [valence |-> 0, arousal |-> 300, labels |-> <<>>, bad |-> {}]

\* DEFAULT_ITEM(): id from uuid4, last_seen from iso_now()
DefaultItem(uuid, t) ==
    [dict |-> TRUE, absent |-> {}, bad |-> {},
     id |-> uuid, content |-> "", tags |-> <<>>, score |-> 0,
     last_seen |-> t, health |-> "ok", penalty |-> 0,
     affect |-> BaseAffect]

\* it.get(k): None when the key is absent
Has(it, k) == it.dict /\ k \notin it.absent
\* the value is present and of the type the conversion accepts
Good(it, k) == Has(it, k) /\ k \notin it.bad

\* str(content or "")
StrContent(c) == IF c = "#0" THEN "" ELSE IF c = "#5" THEN "5" ELSE c

\* _is_iso8601_z(it.get("last_seen", ""))
IsIso8601Z(it) == Good(it, "last_seen") /\ it.last_seen >= 0

\* float(aff.get(...)) raises on a value that is not a number
NormalizeRaises(it) ==
    /\ it.dict
    /\ Good(it, "affect")
    /\ it.affect.bad # {}

\* variant: normalization starts every record as ok
NormalizedHealth_AlwaysOk(it) == "ok"

\* out["health"] = it.get("health") if it is one of the three values, else ok
NormalizedHealth(it) ==
    IF Good(it, "health") /\ it.health \in HealthValues THEN it.health ELSE "ok"

\* _normalize_item(it); uuid is the value uuid4() returns, t is iso_now()
NormalizeItem(it, uuid, t) ==
    IF ~it.dict THEN DefaultItem(uuid, t)
    ELSE
    [dict |-> TRUE, absent |-> {}, bad |-> {},
     id |-> IF Good(it, "id") /\ it.id # 0 THEN it.id ELSE uuid,
     content |-> IF Good(it, "content") THEN StrContent(it.content) ELSE "",
     tags |-> IF Good(it, "tags") THEN it.tags ELSE <<>>,
     score |-> IF Good(it, "score") THEN it.score ELSE 0,
     last_seen |-> IF IsIso8601Z(it) THEN it.last_seen ELSE t,
     health |-> NormalizedHealth(it),
     penalty |-> IF Good(it, "penalty") THEN it.penalty ELSE 0,
     affect |-> IF Good(it, "affect")
                THEN [valence |-> Clip(it.affect.valence, -1000, 1000),
                      arousal |-> Clip(it.affect.arousal, 0, 1000),
                      labels |-> it.affect.labels, bad |-> {}]
                ELSE BaseAffect]

\* whether normalization takes its id from uuid4
NeedsUuid(it) == ~it.dict \/ ~Good(it, "id") \/ it.id = 0

\* variant: the tags enter the signature in stored order
Signature_Unsorted(norm) == <<norm.content, norm.tags>>

\* sig = (content, tuple(sorted(tags)))
Signature(norm) == <<norm.content, Sorted(norm.tags)>>

(*************************** raw store contents ****************************)
SeedAffect == [valence |-> 200, arousal |-> 500, labels |-> <<"positive">>,
               bad |-> {}]

Rec(id, content, tags, penalty, health) ==
    [dict |-> TRUE, absent |-> {}, bad |-> {},
     id |-> id, content |-> content, tags |-> tags, score |-> 600,
     last_seen |-> 0, health |-> health, penalty |-> penalty,
     affect |-> SeedAffect]

\* an entry of core_memories that is not a JSON object
NonDict == [Rec(0, "", <<>>, 0, "ok") EXCEPT !.dict = FALSE]

(*************************** Reflection ************************************)
SessionWindow == 10

\* log[-10:] if len(log) > 10 else log
Window(log) ==
    IF Len(log) > SessionWindow
    THEN SubSeq(log, Len(log) - SessionWindow + 1, Len(log)) ELSE log

KindCount(window, k) == Cardinality({i \in 1..Len(window) : window[i] = k})

\* top[0][0]: the kind with the most events, the first seen among equals
TopKind(window) ==
    LET best == CHOOSE i \in 1..Len(window) :
                    /\ \A j \in 1..Len(window) :
                          KindCount(window, window[j])
                              <= KindCount(window, window[i])
                    /\ \A j \in 1..(i - 1) :
                          KindCount(window, window[j])
                              < KindCount(window, window[i])
    IN  window[best]

\* the insight reflect_on_session derives
Insight(window) ==
    IF window = <<>> THEN "baseline" ELSE TopKind(window)

\* the valence analyze_emotion gives the insight: "stable" and "focus" are
\* positive words, "error" is a negative one
InsightValence(insight) == IF insight = "error" THEN 0 - 50 ELSE 200

\* e.get("kind", "unknown") raises on an entry that is not a JSON object
ReflectRaises(window) == \E i \in 1..Len(window) : window[i] = "#5"

(*************************** Healing 2.0 ***********************************)
\* str(it.get("id")) as used by the pre-scan: "None" for an absent key
PreScanId(it) == IF Has(it, "id") THEN <<TRUE, it.id>> ELSE <<FALSE, 0>>

\* _detect_anomalies(items)
DetectAnomalies(items) ==
    LET D == {i \in 1..Len(items) : items[i].dict}
    IN  [non_dict |-> Len(items) - Cardinality(D),
         missing_fields |->
            Cardinality({i \in D : items[i].absent \cap RequiredFields # {}}),
         bad_timestamp |-> Cardinality({i \in D : ~IsIso8601Z(items[i])}),
         duplicate_ids |->
            Cardinality({PreScanId(items[i]) : i \in
                {j \in D : \E k \in D : k < j /\
                     PreScanId(items[k]) = PreScanId(items[j])}})]

NoAnomalies == [non_dict |-> 0, missing_fields |-> 0, bad_timestamp |-> 0,
                duplicate_ids |-> 0]

\* variant: the floor overwrites the penalty
IdDedupPenalty_Overwrite(p) == 150

\* variant: the floor of the id dedup is 0.1
IdDedupPenalty_LowFloor(p) == Max(p, 100)

\* penalty floor of a record whose id was re-issued: max(penalty, 0.15)
IdDedupPenalty(p) == Max(p, 150)

\* variant: every pass adds the anomaly penalty
AnomalousPenalty_Accumulate(p) == p + 200

\* variant: the floor of the signature duplicates (0.1) is used
AnomalousPenalty_LowFloor(p) == Max(p, 100)

\* penalty floor of an empty-content record: max(penalty, 0.2)
AnomalousPenalty(p) == Max(p, 200)

\* variant: the id is never looked up in seen_ids
IdSeen_Never(id, seen_ids) == FALSE

\* _id in seen_ids
IdSeen(id, seen_ids) == id \in seen_ids

\* state of the loop of heal_memory before its first iteration
HealStart(uuid) ==
    [healed |-> <<>>, src |-> <<>>, seen_sig |-> {}, seen_ids |-> {},
     dedup_sig |-> 0, dedup_ids |-> 0, repaired |-> 0,
     anomalous_marked |-> 0, uuid |-> uuid, raised |-> FALSE]

\* one iteration of the loop of heal_memory on raw entry it (index idx)
HealStep(acc, it, idx, t) ==
    IF acc.raised THEN acc
    ELSE IF NormalizeRaises(it) THEN [acc EXCEPT !.raised = TRUE]
    ELSE
    LET norm == NormalizeItem(it, 0 - (acc.uuid + 1), t)
        u1 == IF NeedsUuid(it) THEN acc.uuid + 1 ELSE acc.uuid
        rep == acc.repaired + (IF ~it.dict \/ it # norm THEN 1 ELSE 0)
    IN  IF SortRaises(norm.tags) THEN [acc EXCEPT !.raised = TRUE, !.uuid = u1]
        ELSE
        LET sig == Signature(norm)
        IN  IF sig \in acc.seen_sig
            THEN [acc EXCEPT !.dedup_sig = @ + 1, !.repaired = rep,
                             !.uuid = u1]
            ELSE
            LET dupId == IdSeen(norm.id, acc.seen_ids)
                n1 == IF dupId
                      THEN [norm EXCEPT !.id = 0 - (u1 + 1),
                                        !.health = "healed",
                                        !.penalty = IdDedupPenalty(@)]
                      ELSE norm
                u2 == IF dupId THEN u1 + 1 ELSE u1
                empty == n1.content = ""
                n2 == IF empty
                      THEN [n1 EXCEPT !.health = "anomalous",
                                      !.penalty = AnomalousPenalty(@)]
                      ELSE n1
            IN  [acc EXCEPT
                    !.healed = Append(@, n2),
                    !.src = Append(@, idx),
                    !.seen_sig = @ \cup {sig},
                    !.seen_ids = @ \cup {n1.id},
                    !.dedup_ids = @ + (IF dupId THEN 1 ELSE 0),
                    !.repaired = rep,
                    !.anomalous_marked = @ + (IF empty THEN 1 ELSE 0),
                    !.uuid = u2]

\* the loop "for it in raw_items" of heal_memory over items[1..n]
RECURSIVE HealLoop(_, _, _, _)
HealLoop(items, n, uuid, t) ==
    IF n = 0 THEN HealStart(uuid)
    ELSE HealStep(HealLoop(items, n - 1, uuid, t), items[n], n, t)

CountHealth(items, h) == Cardinality({i \in 1..Len(items) : items[i].health = h})

\* resilience = 0.0 if total == 0 else round(ok_count / total, 3)
Resilience(ok_count, total) ==
    IF total = 0 THEN 0 ELSE RoundDiv(1000 * ok_count, total)

\* the HealingPulse of heal_memory together with the returned resilience
HealPulse(pre, acc) ==
    LET total == Len(acc.healed)
        ok_count == CountHealth(acc.healed, "ok")
        anomalous_count == CountHealth(acc.healed, "anomalous")
    IN  [pre_anomalies |-> pre,
         repairs |-> [normalized_or_fixed |-> acc.repaired,
                      dedup_signature |-> acc.dedup_sig,
                      dedup_ids |-> acc.dedup_ids,
                      anomalous_marked |-> acc.anomalous_marked],
         post_health |-> [total |-> total, ok |-> ok_count,
                          healed |-> CountHealth(acc.healed, "healed"),
                          anomalous |-> anomalous_count,
                          resilience |-> Resilience(ok_count, total)],
         status |-> IF anomalous_count = 0 /\ pre = NoAnomalies
                    THEN "OK" ELSE "WARN"]

NoPulse == HealPulse(NoAnomalies, HealStart(0))

\* heal_memory(): an exception leaves the persisted store as it was
Heal ==
    LET acc == HealLoop(store, Len(store), uuidCount, now)
    IN  /\ prev' = store
        /\ prevPulse' = pulse
        /\ IF acc.raised
           THEN /\ lastOp' = "heal_raised"
                /\ uuidCount' = uuidCount
                /\ healStreak' = 0
                /\ origin' = <<>>
                /\ UNCHANGED <<store, pulse>>
           ELSE /\ lastOp' = "heal"
                /\ uuidCount' = acc.uuid
                /\ healStreak' = Min(healStreak + 1, 2)
                /\ store' = acc.healed
                /\ origin' = acc.src
                /\ pulse' = HealPulse(DetectAnomalies(store), acc)
        /\ UNCHANGED <<now, recentValence, recalled, evolves, changed>>

(*************************** Recall ****************************************)
\* _eff_score(it)[0] in units of 1e-6; recent valences are sums of
\* 0.2 and -0.25 steps, so val * rv is a multiple of 50
EffScore(it, rv) ==
    LET health_bonus == IF it.health = "ok" THEN 20
                        ELSE IF it.health = "healed" THEN 0 ELSE 0 - 50
        val == it.affect.valence
        aro == Clip(it.affect.arousal, 0, 1000)
    IN  1000 * (it.score - it.penalty) + 1000 * health_bonus
        + 30 * val
        + 40 * (1000 - 2 * Abs(550 - aro))
        + (val * rv) \div 50

\* key(a) > key(b) for the key (eff, last_seen)
RanksBefore(a, b, rv) ==
    \/ EffScore(a, rv) > EffScore(b, rv)
    \/ EffScore(a, rv) = EffScore(b, rv) /\ a.last_seen > b.last_seen

\* put x behind every element that does not rank after it
RECURSIVE RankInsert(_, _, _)
RankInsert(x, s, rv) ==
    IF s = <<>> THEN <<x>>
    ELSE IF RanksBefore(x, Head(s), rv) THEN <<x>> \o s
    ELSE <<Head(s)>> \o RankInsert(x, Tail(s), rv)

\* sorted(items, key=_eff_score, reverse=True): stable, descending
RECURSIVE Ranked(_, _, _)
Ranked(items, n, rv) ==
    IF n = 0 THEN <<>>
    ELSE RankInsert(items[n], Ranked(items, n - 1, rv), rv)

\* recall_core_memories(limit) on a list of items
RecallOf(items, limit, rv) ==
    IF items = <<>> THEN <<>>
    ELSE SubSeq(Ranked(items, Len(items), rv), 1,
                Min(Len(items), Max(1, limit)))

\* the limits recall_core_memories is called with (the loop uses 5)
RecallLimits == {1, 5}

Recall ==
    /\ lastOp = "heal"
    /\ \E limit \in RecallLimits :
            recalled' = RecallOf(store, limit, recentValence)
    /\ lastOp' = "recall"
    /\ UNCHANGED <<store, prev, origin, uuidCount, now, healStreak, pulse,
                   prevPulse, recentValence, evolves, changed>>

(*************************** Evolution *************************************)
\* variant: one recall clears the whole penalty
EvolveItem_Forgiving(it, t) ==
    [it EXCEPT !.score = @ + 100,
               !.penalty = Min(@, 0),
               !.health = IF @ \in {"healed", "anomalous"} /\ it.penalty >= 0
                          THEN "ok" ELSE @,
               !.last_seen = t]

\* variant: a recall wears the score down
EvolveItem_Tiring(it, t) ==
    [it EXCEPT !.score = @ - 100, !.last_seen = t]

\* the body of the loop of evolve_engine for one recalled record
EvolveItem(it, t) ==
    LET p == IF it.penalty > 0 THEN Max(0, it.penalty - 20) ELSE it.penalty
        val == it.affect.valence
        aro == it.affect.arousal
    IN  [it EXCEPT
            !.score = @ + 100,
            !.penalty = p,
            !.health = IF @ \in {"healed", "anomalous"} /\ p = 0
                       THEN "ok" ELSE @,
            !.affect = [@ EXCEPT
                !.valence = IF Abs(val) > 800 THEN RoundDiv(val * 95, 100)
                            ELSE val,
                !.arousal = RoundDiv(950 * aro + 27500, 1000)],
            !.last_seen = t]

StoreIds(items) == {items[i].id : i \in 1..Len(items)}

\* variant: every stored record is reinforced and counted
Evolve_Everything ==
    /\ lastOp = "recall"
    /\ evolves < MaxEvolves
    /\ store' = [i \in 1..Len(store) |-> EvolveItem(store[i], now)]
    /\ changed' = Len(store)
    /\ evolves' = evolves + 1
    /\ lastOp' = "evolve"
    /\ healStreak' = 0
    /\ UNCHANGED <<prev, origin, uuidCount, now, pulse, prevPulse,
                   recentValence, recalled>>

\* evolve_engine(reflection, heal_status, recalled)
Evolve ==
    /\ lastOp = "recall"
    /\ evolves < MaxEvolves
    /\ LET id_set == StoreIds(recalled)
       IN  /\ store' = [i \in 1..Len(store) |->
                          IF store[i].id \in id_set
                          THEN EvolveItem(store[i], now) ELSE store[i]]
           /\ changed' = Cardinality({i \in 1..Len(store) :
                                         store[i].id \in id_set})
    /\ evolves' = evolves + 1
    /\ lastOp' = "evolve"
    /\ healStreak' = 0
    /\ UNCHANGED <<prev, origin, uuidCount, now, pulse, prevPulse,
                   recentValence, recalled>>

\* the clock behind iso_now() moves on
Tick ==
    /\ now < MaxTime
    /\ now' = now + 1
    /\ UNCHANGED <<store, prev, origin, uuidCount, lastOp, healStreak,
                   pulse, prevPulse, recentValence, recalled, evolves, changed>>

(*************************** Autonomy Layer ********************************)
\* AUTONOMY_DEFAULTS
SleepSecBase == 5000
SleepSecMin == 2000
SleepSecMax == 15000
TargetComputeMs == 800
ErrorBackoffSec == 3000
PruneMaxItems == 1000
PruneFloorKeep == 50
PruneIfScoreLt == 50
PruneIfPenaltyGt == 200
PruneIfLastSeenDaysGt == 7
SecondsPerDay == 86400
RollingMsKeep == 20
RollingErrorsKeep == 50

\* s[-n:]
LastN(s, n) == IF Len(s) <= n THEN s ELSE SubSeq(s, Len(s) - n + 1, Len(s))

\* round(x, 2) of a value in thousandths
Round2(x) == 10 * RoundDiv(x, 10)

\* variant: every stale record is eligible
Eligible_StaleOnly(it, t) ==
    it.last_seen < t - PruneIfLastSeenDaysGt * SecondsPerDay

\* _eligible(it) of _maybe_prune_memories
Eligible(it, t) ==
    LET old_enough == it.last_seen < t - PruneIfLastSeenDaysGt * SecondsPerDay
        weak == \/ it.score < PruneIfScoreLt /\ it.penalty > PruneIfPenaltyGt
                \/ it.health = "anomalous"
    IN  old_enough /\ weak

RECURSIVE Filter(_, _, _)
Filter(items, n, t) ==
    IF n = 0 THEN <<>>
    ELSE IF Eligible(items[n], t) THEN Filter(items, n - 1, t)
    ELSE Append(Filter(items, n - 1, t), items[n])

RECURSIVE ScoreInsert(_, _)
ScoreInsert(x, s) ==
    IF s = <<>> THEN <<x>>
    ELSE IF x.score > Head(s).score THEN <<x>> \o s
    ELSE <<Head(s)>> \o ScoreInsert(x, Tail(s))

\* sorted(items, key=score, reverse=True)
RECURSIVE ByScore(_, _)
ByScore(items, n) ==
    IF n = 0 THEN <<>> ELSE ScoreInsert(items[n], ByScore(items, n - 1))

\* variant: no floor, the eligible records are removed and that is all
SurvivorsOf_NoFloor(items, t, floor_keep) == Filter(items, Len(items), t)

\* the survivors of _maybe_prune_memories when prune_floor_keep is
\* floor_keep
SurvivorsOf(items, t, floor_keep) ==
    LET survivors == Filter(items, Len(items), t)
    IN  IF Len(survivors) < floor_keep
        THEN SubSeq(ByScore(items, Len(items)), 1,
                    Min(floor_keep, Len(items)))
        ELSE survivors

\* the survivors of _maybe_prune_memories (called with more than
\* prune_max_items records)
PruneSurvivors(items, t) == SurvivorsOf(items, t, PruneFloorKeep)

\* variant: the slow-down step is not clamped
SlowDown_NoClamp(s) == Round2(s + 500)

\* sleep_sec = min(sleep_sec_max, round(sleep_sec + 0.5, 2))
SlowDown(s) == Min(SleepSecMax, Round2(s + 500))

\* variant: the speed-up step is not clamped
SpeedUp_NoFloor(s) == Round2(s - 500)

\* sleep_sec = max(sleep_sec_min, round(sleep_sec - 0.5, 2))
SpeedUp(s) == Max(SleepSecMin, Round2(s - 500))

\* sleep_sec = min(sleep_sec_max, round(sleep_sec + error_backoff_sec, 2))
Backoff(s) == Min(SleepSecMax, Round2(s + ErrorBackoffSec))

\* the three adjustments of autonomy_controller, in order
NextSleep(s, last_ms, had_error, recalled_count, resilience) ==
    LET s1 == IF 2 * last_ms < TargetComputeMs /\ resilience >= 900
                 /\ recalled_count >= 1
              THEN SpeedUp(s) ELSE s
        s2 == IF 2 * last_ms > 3 * TargetComputeMs \/ resilience < 600
              THEN SlowDown(s1) ELSE s1
    IN  IF had_error THEN Backoff(s2) ELSE s2

\* autonomy_controller(last_ms, had_error, recalled_count, resilience) when
\* prune_max_items is ceiling and prune_floor_keep is floor_keep
AdjustWithLimits(last_ms, had_error, recalled_count, resilience, ceiling, floor_keep) ==
    LET s == NextSleep(sleep_sec, last_ms, had_error, recalled_count,
                       resilience)
        prunes == Len(store) > ceiling /\ resilience >= 700
        survivors == IF prunes THEN SurvivorsOf(store, now, floor_keep)
                     ELSE store
        stats == IF prunes
                 THEN [pruned |-> Len(store) - Len(survivors),
                       kept |-> Len(survivors)]
                 ELSE [pruned |-> 0, kept |-> 0]
    IN  /\ rolling_ms' = LastN(Append(rolling_ms, last_ms), RollingMsKeep)
        /\ rolling_errors' = LastN(Append(rolling_errors,
                                          IF had_error THEN 1 ELSE 0),
                                   RollingErrorsKeep)
        /\ sleep_sec' = s
        /\ store' = survivors
        /\ last_prune' = IF prunes THEN <<[ts |-> now, pruned |-> stats.pruned,
                                           kept |-> stats.kept]>>
                         ELSE last_prune
        /\ returned' = <<[sleep_sec |-> s, prune |-> stats]>>

\* autonomy_controller(last_ms, had_error, recalled_count, resilience)
AdjustWith(last_ms, had_error, recalled_count, resilience) ==
    AdjustWithLimits(last_ms, had_error, recalled_count, resilience,
                     PruneMaxItems, PruneFloorKeep)

\* values the orchestrator passes to autonomy_controller
LatencyValues == {100, 2000}
ResilienceValues == {500, 950}
RecalledCounts == {0, 1}

AutonomyAdjust ==
    /\ adjusts < MaxAdjusts
    /\ \E last_ms \in LatencyValues, had_error \in BOOLEAN,
          recalled_count \in RecalledCounts, resilience \in ResilienceValues :
            AdjustWith(last_ms, had_error, recalled_count, resilience)
    /\ adjusts' = adjusts + 1
    /\ UNCHANGED <<prev, origin, uuidCount, now, lastOp, healStreak, pulse,
                   prevPulse, recentValence, recalled, evolves, changed,
                   commands, effects, imports>>

\* cycle times, resilience values and recalled counts at, below and above
\* the thresholds of the controller
EdgeLatencies == {100, 400, 800, 1200, 2000}
EdgeResiliences == {500, 600, 700, 900, 950}
EdgeCounts == {0, 1}

\* sleep_sec values the controller can find stored: multiples of 0.5
\* reached by its own steps, and values a set_sleep command has stored
StoredSleeps == {2000, 2254, 2300, 5000, 12400, 14900, 15000}

\* autonomy_controller with inputs at and around its thresholds
AdjustAtEdges ==
    /\ adjusts < MaxAdjusts
    /\ \E last_ms \in EdgeLatencies, had_error \in BOOLEAN,
          recalled_count \in EdgeCounts, resilience \in EdgeResiliences :
            AdjustWith(last_ms, had_error, recalled_count, resilience)
    /\ adjusts' = adjusts + 1
    /\ UNCHANGED <<prev, origin, uuidCount, now, lastOp, healStreak, pulse,
                   prevPulse, recentValence, recalled, evolves, changed,
                   commands, effects, imports>>

\* seven days and a day, in seconds: the time of the pruning runs
PruneTime == (PruneIfLastSeenDaysGt + 1) * SecondsPerDay

\* records of a store that is pruned: stale and weak by score and penalty,
\* stale and anomalous with a high score, fresh with a low score, stale
\* and strong, last seen exactly at the cutoff and anomalous
PruneProfiles ==
    { [score |-> 0, penalty |-> 300, health |-> "healed", last_seen |-> 0],
      [score |-> 900, penalty |-> 0, health |-> "anomalous", last_seen |-> 0],
      [score |-> 10, penalty |-> 0, health |-> "ok",
       last_seen |-> PruneTime],
      [score |-> 600, penalty |-> 0, health |-> "ok", last_seen |-> 0],
      [score |-> 40, penalty |-> 250, health |-> "anomalous",
       last_seen |-> SecondsPerDay] }

PruneRecord(id, p) ==
    [Rec(id, "x", <<id>>, p.penalty, p.health) EXCEPT
        !.score = p.score, !.last_seen = p.last_seen]

\* healed stores at the ceiling and one above it; the id of a record is
\* its place
PruneStores ==
    UNION {{[i \in 1..n |-> PruneRecord(i, f[i])] :
                f \in [1..n -> PruneProfiles]} :
            n \in PruneCeiling..PruneCeiling + 1}

\* autonomy_controller with prune_max_items = PruneCeiling and
\* prune_floor_keep = PruneFloor, after a fast cycle without an error
AutonomyPrune ==
    /\ adjusts < MaxAdjusts
    /\ \E resilience \in ResilienceValues :
            AdjustWithLimits(100, FALSE, 1, resilience, PruneCeiling,
                             PruneFloor)
    /\ adjusts' = adjusts + 1
    /\ UNCHANGED <<prev, origin, uuidCount, now, lastOp, healStreak, pulse,
                   prevPulse, recentValence, recalled, evolves, changed,
                   commands, effects, imports>>

(*************************** Inter-Module Sync *****************************)
\* a commands.json document: keys are the keys it has; set_sleep_bad says
\* that float() rejects the set_sleep value
NoCommands ==
    [keys |-> {}, set_sleep |-> 0, set_sleep_bad |-> FALSE,
     push_memory |-> NonDict, clear_commands |-> FALSE]

NoEffects == [set_sleep |-> <<>>, pushed |-> 0, cleared |-> FALSE,
              raised |-> FALSE]

\* item.get("content") is truthy
HasContent(item) ==
    item.dict /\ Has(item, "content") /\ item.content \notin {"", "#0"}

\* import_commands_if_any() of 14.0; an exception of _normalize_item leaves
\* the handler after the set_sleep override and before the truncation
ImportCommands ==
    /\ imports < MaxImports
    /\ imports' = imports + 1
    /\ IF commands.keys = {}
       THEN /\ effects' = NoEffects
            /\ UNCHANGED <<sleep_sec, store, uuidCount, commands>>
       ELSE
       LET sets == "set_sleep" \in commands.keys /\ ~commands.set_sleep_bad
           s == IF sets THEN Clip(commands.set_sleep, SleepSecMin, SleepSecMax)
                ELSE sleep_sec
           item == commands.push_memory
           pushes == "push_memory" \in commands.keys /\ HasContent(item)
           raises == pushes /\ NormalizeRaises(item)
           clears == ~raises /\ commands.clear_commands
       IN  /\ sleep_sec' = s
           /\ IF pushes /\ ~raises
              THEN /\ store' = Append(store,
                                  NormalizeItem(item, 0 - (uuidCount + 1), now))
                   /\ uuidCount' = IF NeedsUuid(item) THEN uuidCount + 1
                                   ELSE uuidCount
              ELSE UNCHANGED <<store, uuidCount>>
           /\ commands' = IF clears THEN NoCommands ELSE commands
           /\ effects' = [set_sleep |-> IF sets THEN <<s>> ELSE <<>>,
                          pushed |-> IF pushes /\ ~raises THEN 1 ELSE 0,
                          cleared |-> clears,
                          raised |-> raises]
    /\ UNCHANGED <<prev, origin, now, lastOp, healStreak, pulse, prevPulse,
                   recentValence, recalled, evolves, changed,
                   rolling_ms, rolling_errors, last_prune, returned, adjusts>>

(*************************** Self-Running Loop *****************************)
\* the start of a cycle and the import step
LoopImport ==
    /\ pc = "import"
    /\ ImportCommands
    /\ cycle_error' = effects'.raised
    /\ pc' = IF effects'.raised THEN "adjust" ELSE "reflect"
    /\ session' = IF \/ effects'.set_sleep # <<>>
                     \/ effects'.pushed > 0
                     \/ effects'.cleared
                  THEN Append(session, "import_effects") ELSE session
    /\ UNCHANGED <<reflection, exported, cycles>>

\* reflect_on_session() and the read of recent_affect that follows it
LoopReflect ==
    /\ pc = "reflect"
    /\ IF ReflectRaises(Window(session))
       THEN /\ cycle_error' = TRUE
            /\ pc' = "adjust"
            /\ UNCHANGED <<session, reflection, recentValence>>
       ELSE /\ session' = Append(session, "reflection")
            /\ reflection' = <<Insight(Window(session))>>
            /\ recentValence' = InsightValence(Insight(Window(session)))
            /\ pc' = "heal"
            /\ UNCHANGED cycle_error
    /\ UNCHANGED <<store, prev, origin, uuidCount, now, lastOp, healStreak,
                   pulse, prevPulse, recalled, evolves, changed,
                   autoVars, exported, cycles>>

LoopHeal ==
    /\ pc = "heal"
    /\ Heal
    /\ cycle_error' = (lastOp' = "heal_raised")
    /\ pc' = IF lastOp' = "heal_raised" THEN "adjust" ELSE "recall"
    /\ UNCHANGED <<autoVars, session, reflection, exported, cycles>>

\* recall_core_memories(limit=5)
LoopRecall ==
    /\ pc = "recall"
    /\ recalled' = RecallOf(store, 5, recentValence)
    /\ lastOp' = "recall"
    /\ pc' = "evolve"
    /\ UNCHANGED <<store, prev, origin, uuidCount, now, healStreak, pulse,
                   prevPulse, recentValence, evolves, changed,
                   autoVars, session, reflection, cycle_error, exported,
                   cycles>>

LoopEvolve ==
    /\ pc = "evolve"
    /\ Evolve
    /\ pc' = "adjust"
    /\ UNCHANGED <<autoVars, session, reflection, cycle_error, exported,
                   cycles>>

\* autonomy_controller(last_ms, cycle_error, ...): outside the try block
\* variant: the controller is given what the cycle measured before it failed
LoopAdjust_Measured ==
    /\ pc = "adjust"
    /\ adjusts < MaxAdjusts
    /\ \E last_ms \in LatencyValues :
            AdjustWith(last_ms, cycle_error, Len(recalled),
                       pulse.post_health.resilience)
    /\ adjusts' = adjusts + 1
    /\ pc' = "export"
    /\ UNCHANGED <<prev, origin, uuidCount, now, lastOp, healStreak, pulse,
                   prevPulse, recentValence, recalled, evolves, changed,
                   commands, effects, imports,
                   session, reflection, cycle_error, exported, cycles>>

LoopAdjust ==
    /\ pc = "adjust"
    /\ adjusts < MaxAdjusts
    /\ \E last_ms \in LatencyValues :
            AdjustWith(last_ms, cycle_error,
                       IF cycle_error THEN 0 ELSE Len(recalled),
                       IF cycle_error THEN 0
                       ELSE pulse.post_health.resilience)
    /\ adjusts' = adjusts + 1
    /\ pc' = "export"
    /\ UNCHANGED <<prev, origin, uuidCount, now, lastOp, healStreak, pulse,
                   prevPulse, recentValence, recalled, evolves, changed,
                   commands, effects, imports,
                   session, reflection, cycle_error, exported, cycles>>

\* the four exports: export_reflection(reflection, affect) reads locals
\* that are unbound until a reflect step has completed
LoopExport ==
    /\ pc = "export"
    /\ IF reflection = <<>>
       THEN /\ pc' = "crashed"
            /\ UNCHANGED exported
       ELSE /\ pc' = "sleep"
            /\ exported' = <<[reflection |-> reflection[1],
                              heal_status |-> IF cycle_error THEN "error"
                                              ELSE pulse.status,
                              sleep_sec |-> returned[1].sleep_sec]>>
    /\ UNCHANGED <<storeVars, autoVars, session, reflection, cycle_error,
                   cycles>>

\* time.sleep(sleep_sec), then the next cycle; the clock may move on
LoopSleep ==
    /\ pc = "sleep"
    /\ pc' = "import"
    /\ cycles' = cycles + 1
    /\ now' \in {now, Min(now + 1, MaxTime)}
    /\ UNCHANGED <<store, prev, origin, uuidCount, lastOp, healStreak, pulse,
                   prevPulse, recentValence, recalled, evolves, changed,
                   autoVars, session, reflection, cycle_error, exported>>

\* KeyboardInterrupt: inside the try block it breaks the loop, elsewhere it
\* leaves self_mechanism as well
LoopCancel ==
    /\ pc \notin {"crashed", "stopped"}
    /\ pc' = "stopped"
    /\ UNCHANGED <<storeVars, autoVars, session, reflection, cycle_error,
                   exported, cycles>>

(*************************** persisted stores ******************************)
\* entries a persisted core_memories list is drawn from
RawEntries ==
    { NonDict,
      Rec(1, "x", <<1, 2>>, 0, "ok"),
      Rec(2, "x", <<2, 1>>, 300, "healed"),
      Rec(1, "", <<>>, 0, "ok"),
      Rec(1, "z", <<>>, 400, "healed"),
      [Rec(0, "#0", <<1>>, 5000, "bogus") EXCEPT !.absent = {"id", "affect"}],
      [Rec(2, "z", <<1>>, 0 - 500, "anomalous") EXCEPT !.bad = {"tags"}],
      [Rec(1, "#5", <<1, 1>>, 0, "ok") EXCEPT
            !.bad = {"penalty", "score", "last_seen"}],
      Rec(2, "w", <<0 - 1, 1>>, 0, "ok"),
      [Rec(2, "w", <<>>, 0, "ok") EXCEPT !.affect.bad = {"valence"}] }

RawStores(maxLen) == UNION {[1..n -> RawEntries] : n \in 0..maxLen}

\* records that come without a health, or with one that is none of the three
UnlabelledEntries ==
    { [Rec(3, "u", <<>>, 0, "ok") EXCEPT !.absent = {"health"}],
      Rec(2, "v", <<>>, 100, "bogus") }

LabelStores(maxLen) ==
    UNION {[1..n -> RawEntries \cup UnlabelledEntries] : n \in 0..maxLen}

(*************************** command documents *****************************)
SetSleepDoc(v, bad, clear) ==
    [keys |-> {"set_sleep"} \cup (IF clear THEN {"clear_commands"} ELSE {}),
     set_sleep |-> v, set_sleep_bad |-> bad,
     push_memory |-> NonDict, clear_commands |-> clear]

PushDoc(item) ==
    [keys |-> {"push_memory"}, set_sleep |-> 0, set_sleep_bad |-> FALSE,
     push_memory |-> item, clear_commands |-> FALSE]

\* set_sleep values an external writer asks for (seconds in thousandths)
SetSleepValues == {0 - 1000, 2254, 14900, 99000}

\* documents an external writer puts into imports/commands.json
CommandDocs ==
    {SetSleepDoc(v, FALSE, FALSE) : v \in SetSleepValues}
    \cup {SetSleepDoc(0, TRUE, FALSE), SetSleepDoc(14900, FALSE, TRUE)}
    \cup {PushDoc(Rec(0, "y", <<1>>, 0, "ok")),
          PushDoc([Rec(2, "w", <<>>, 0, "ok") EXCEPT
                        !.affect.bad = {"valence"}])}

\* an external writer replaces imports/commands.json
WriteCommands ==
    /\ \E doc \in CommandDocs : commands' = doc /\ doc # commands
    /\ UNCHANGED <<storeVars, sleep_sec, rolling_ms, rolling_errors,
                   last_prune, returned, effects, adjusts, imports>>

\* the autonomy state a fresh document gets from _autonomy_state
InitAutoFrom(docs, none) ==
    /\ sleep_sec = SleepSecBase
    /\ rolling_ms = <<>>
    /\ rolling_errors = <<>>
    /\ last_prune = <<>>
    /\ returned = <<>>
    /\ commands \in docs
    /\ effects = none
    /\ adjusts = 0
    /\ imports = 0

InitAutoWith(docs) == InitAutoFrom(docs, NoEffects)

InitAuto == InitAutoWith({NoCommands})

\* session logs the loop starts with
SessionLogs == {<<>>, <<"error">>, <<"#5">>}

InitLoop(logs) ==
    /\ session \in logs
    /\ reflection = <<>>
    /\ pc = "import"
    /\ cycle_error = FALSE
    /\ exported = <<>>
    /\ cycles = 0

(*************************** 20.0: guarded artifacts ************************)
\* OWNER_ID of 20.0
OwnerId == "YZ"

\* the artifacts the model follows
Artifacts == {"memory", "session", "audit", "commands", "healing_summary",
              "export"}

SealStates == {"missing", "unsealed", "sealed", "stale"}

\* _write_and_hash(path, payload): the file and then its .sha record
Sealed(s, paths) == [p \in Artifacts |-> IF p \in paths THEN "sealed" ELSE s[p]]

\* _append_audit(event)
AuditAppend(a, events) == a \o events

\* the one artifact before it is first written
NoFile ==
    /\ file = <<>>
    /\ sha = <<>>
    /\ verdict = <<>>
    /\ lastFileOp = "none"

\* nobody at the console, no stop requested
NoConsole ==
    /\ inbox = <<>>
    /\ stop = FALSE
    /\ slices = 0
    /\ drained = 0
    /\ produced = 0
    /\ afterStop = 0

\* no write in progress, nothing loaded
NoDisk ==
    /\ tmpfile = <<>>
    /\ pending = <<>>
    /\ wstep = "idle"
    /\ committed = <<>>
    /\ loaded = <<>>

\* no memory document on disk
NoDocument == [kind |-> "absent"]

\* analyze_emotion is not called
NoSample ==
    /\ sample = [text |-> FALSE, chars |-> <<>>]
    /\ analysed = <<>>

\* the loop of 20.0 is not running over a memory document
NoShape ==
    /\ memshape = [meta |-> "absent", core |-> "absent", signals |-> "absent"]
    /\ step20 = "idle"
    /\ failed20 = 0
    /\ passed20 = 0

\* no document of 7.0 / 8.5, nobody appending to the audit log
NoMore ==
    /\ diskdoc = NoDocument
    /\ memdata = <<>>
    /\ orig = [engine |-> "", doc |-> NoDocument]
    /\ loads = 0
    /\ lread = <<>>
    /\ hread = <<>>
    /\ appended = <<>>
    /\ NoShape
    /\ NoSample

NoLate == NoConsole /\ NoDisk /\ NoMore

\* the local mirror before its first request
NoRequest ==
    /\ hpc = "idle"
    /\ data = <<>>
    /\ response = <<>>
    /\ wpc = "idle"
    /\ requests = 0

\* nothing changed outside the guard yet
NoTrust ==
    /\ warned = {}
    /\ trusted = {}

\* the 20.0 state while only 14.0 runs
Idle20 ==
    /\ audit = <<>>
    /\ seal = [p \in Artifacts |-> "missing"]
    /\ NoFile
    /\ NoTrust
    /\ NoRequest
    /\ NoLate

(*************************** 20.0: hash guard ******************************)
OpenBrace == 123
CloseBrace == 125

\* the bodies of the payloads written through the guard
Bodies == UNION {[1..n -> {0, 1}] : n \in 0..MaxBody}

\* json.dump(payload, f): the bytes of the document
Serialize(body) == <<OpenBrace>> \o body \o <<CloseBrace>>

\* byte strings a file can hold: documents and strings that are no JSON
ByteStrings == {Serialize(b) : b \in Bodies} \cup Bodies

DigestBase == 131
DigestModulus == 8388593

\* _sha256_bytes(b): a digest folded over the bytes
RECURSIVE Sha256Bytes(_, _)
Sha256Bytes(b, n) ==
    IF n = 0 THEN 0
    ELSE (Sha256Bytes(b, n - 1) * DigestBase + b[n] + 1) % DigestModulus

\* _hash_file(path): <<>> is None
HashFile(f) == IF f = <<>> THEN <<>> ELSE <<Sha256Bytes(f[1], Len(f[1]))>>

\* variant: the record is written from the file as it was before the write
SealOf_BeforeWrite(old, new) == HashFile(old)

\* h = _hash_file(path) after _write_json_raw(path, payload)
SealOf(old, new) == HashFile(new)

\* _write_and_hash(path, payload)
WriteAndHash ==
    /\ \E body \in Bodies :
            /\ file' = <<Serialize(body)>>
            /\ sha' = SealOf(file, file')
    /\ lastFileOp' = "write"
    /\ UNCHANGED <<verdict, audit, seal>>

\* the bytes of the artifact change without the guard
TamperBytes ==
    /\ file # <<>>
    /\ \E b \in ByteStrings : b # file[1] /\ file' = <<b>>
    /\ lastFileOp' = IF lastFileOp = "write" THEN "tamper" ELSE "other"
    /\ UNCHANGED <<sha, verdict, audit, seal>>

\* the artifact is removed
RemoveFile ==
    /\ file # <<>>
    /\ file' = <<>>
    /\ lastFileOp' = "other"
    /\ UNCHANGED <<sha, verdict, audit, seal>>

\* the .sha record is removed
RemoveRecord ==
    /\ sha # <<>>
    /\ sha' = <<>>
    /\ lastFileOp' = "other"
    /\ UNCHANGED <<file, verdict, audit, seal>>

\* ok = bool(recorded) and recorded.get("sha256") == current
HashOk(f, r) == r # <<>> /\ r = HashFile(f)

\* _verify_hash(path)
VerifyHash ==
    /\ verdict' = <<[ok |-> HashOk(file, sha), after |-> lastFileOp]>>
    /\ UNCHANGED <<file, sha, lastFileOp, audit, seal>>

\* the status _security_verify_cycle records (_security_verify_startup
\* computes the same one)
VerifyStatus(f, r) ==
    IF f = <<>> THEN "missing"
    ELSE IF HashOk(f, r) THEN "ok" ELSE "mismatch"

\* the audit event of a verification, with the state it was taken in
VerifyEvent ==
    [kind |-> "verify", status |-> VerifyStatus(file, sha),
     file_present |-> file # <<>>, record_present |-> sha # <<>>]

\* _security_verify_cycle([label, path])
SecurityVerifyCycle ==
    /\ Len(audit) < MaxVerifies
    /\ audit' = AuditAppend(audit, <<VerifyEvent>>)
    /\ UNCHANGED <<file, sha, verdict, lastFileOp, seal>>

(*************************** 20.0: owner-locked imports ********************)
\* _normalize_item(it) of 20.0: no affect key, and no conversion that raises
NormalizeItem20(it, uuid, t) ==
    IF ~it.dict
    THEN [DefaultItem(uuid, t) EXCEPT !.absent = {"affect"}]
    ELSE
    [dict |-> TRUE, absent |-> {"affect"}, bad |-> {},
     id |-> IF Good(it, "id") /\ it.id # 0 THEN it.id ELSE uuid,
     content |-> IF Good(it, "content") THEN StrContent(it.content) ELSE "",
     tags |-> IF Good(it, "tags") THEN it.tags ELSE <<>>,
     score |-> IF Good(it, "score") THEN it.score ELSE 0,
     last_seen |-> IF IsIso8601Z(it) THEN it.last_seen ELSE t,
     health |-> IF Good(it, "health") /\ it.health \in HealthValues
                THEN it.health ELSE "ok",
     penalty |-> IF Good(it, "penalty") THEN it.penalty ELSE 0,
     affect |-> BaseAffect]

\* a 20.0 command document: owner "" stands for a document without the key
OwnedDoc(doc, owner) ==
    [keys |-> doc.keys \cup (IF owner = "" THEN {} ELSE {"owner"}),
     owner |-> owner,
     set_sleep |-> doc.set_sleep, set_sleep_bad |-> doc.set_sleep_bad,
     push_memory |-> doc.push_memory, clear_commands |-> doc.clear_commands]

NoCommands20 == OwnedDoc(NoCommands, "")

NoEffects20 == [set_sleep |-> <<>>, pushed |-> 0, cleared |-> FALSE,
                ignored |-> FALSE]

\* variant: a document without an owner key passes the check
Authorized_AbsentPasses(doc) == doc.owner \in {OwnerId, ""}

\* cmds.get("owner") == OWNER_ID
Authorized(doc) == doc.owner = OwnerId

\* import_commands_if_any() of 20.0 (16.0 has the same body)
ImportCommands20 ==
    /\ imports < MaxImports
    /\ imports' = imports + 1
    /\ IF commands.keys = {}
       THEN /\ effects' = NoEffects20
            /\ UNCHANGED <<store, uuidCount, commands, session, audit, seal>>
       ELSE IF ~Authorized(commands)
       THEN /\ session' = Append(session, "unauthorized_import")
            /\ audit' = AuditAppend(audit, <<[kind |-> "security",
                                              label |-> "commands",
                                              status |-> "ignored"]>>)
            /\ seal' = Sealed(seal, {"session", "audit"})
            /\ effects' = [NoEffects20 EXCEPT !.ignored = TRUE]
            /\ UNCHANGED <<store, uuidCount, commands>>
       ELSE
       LET sets == "set_sleep" \in commands.keys /\ ~commands.set_sleep_bad
           item == commands.push_memory
           pushes == "push_memory" \in commands.keys /\ HasContent(item)
           clears == commands.clear_commands
       IN  /\ IF pushes
              THEN /\ store' = Append(store,
                                NormalizeItem20(item, 0 - (uuidCount + 1), now))
                   /\ uuidCount' = IF NeedsUuid(item) THEN uuidCount + 1
                                   ELSE uuidCount
              ELSE UNCHANGED <<store, uuidCount>>
           /\ commands' = IF clears THEN NoCommands20 ELSE commands
           /\ seal' = Sealed(seal, (IF pushes THEN {"memory"} ELSE {})
                                     \cup (IF clears THEN {"commands"} ELSE {}))
           /\ effects' = [set_sleep |-> IF sets THEN <<commands.set_sleep>>
                                        ELSE <<>>,
                          pushed |-> IF pushes THEN 1 ELSE 0,
                          cleared |-> clears,
                          ignored |-> FALSE]
           /\ UNCHANGED <<session, audit>>
    /\ UNCHANGED <<prev, origin, now, lastOp, healStreak, pulse, prevPulse,
                   recentValence, recalled, evolves, changed,
                   sleep_sec, rolling_ms, rolling_errors, last_prune, returned,
                   adjusts, reflection, pc, cycle_error, exported, cycles,
                   countVars, sealVars, trustVars, lateVars, mirrorVars>>

\* the seeded record of _bootstrap_seed_memory of 20.0
Seed20 == [Rec(0 - 1, "x", <<1, 2, 3>>, 0, "ok") EXCEPT !.absent = {"affect"},
                                                        !.affect = BaseAffect]

FullDoc ==
    [keys |-> {"set_sleep", "push_memory", "clear_commands"},
     set_sleep |-> 99000, set_sleep_bad |-> FALSE,
     push_memory |-> Rec(0, "y", <<1>>, 0, "ok"), clear_commands |-> TRUE]

Owners == {OwnerId, "XX", ""}

\* documents an external writer puts into imports/commands.json of 20.0
CommandDocs20 ==
    {OwnedDoc(doc, o) :
        doc \in {FullDoc, SetSleepDoc(8000, FALSE, FALSE), NoCommands},
        o \in Owners} \ {NoCommands20}

\* an external writer replaces imports/commands.json and leaves its .sha
\* record alone
WriteCommands20 ==
    /\ \E doc \in CommandDocs20 : commands' = doc /\ doc # commands
    /\ seal' = [seal EXCEPT !["commands"] =
                    IF @ \in {"sealed", "stale"} THEN "stale" ELSE "unsealed"]
    /\ UNCHANGED <<storeVars, sleep_sec, rolling_ms, rolling_errors,
                   last_prune, returned, effects, adjusts, imports,
                   loopVars, countVars, audit, sealVars, trustVars, lateVars, mirrorVars>>

(*************************** 20.0: startup and cycle ***********************)
\* the artifacts the claim about tampering names
CoreArtifacts == {"memory", "session"}

\* the status a verification records for an artifact
SealStatus(s) ==
    IF s = "missing" THEN "missing"
    ELSE IF s = "sealed" THEN "ok" ELSE "mismatch"

\* one audit event per verified artifact, in the order of the labels
VerifyEvents(s, labels) ==
    [i \in 1..Len(labels) |->
        [kind |-> "verify", label |-> labels[i],
         status |-> SealStatus(s[labels[i]])]]

\* the artifacts a list of verify events warns about
Mismatched(events) ==
    {events[i].label : i \in {j \in 1..Len(events) :
                                  events[j].status = "mismatch"}}

\* the artifacts among paths that are read and sealed again without a
\* mismatch on record
Unwarned(s, w, paths) == {p \in paths : s[p] = "stale" /\ p \notin w}

\* the bytes of a sealed core artifact change outside the guard, before
\* startup or while the loop sleeps
TamperCore ==
    /\ pc \in {"off", "sleep"}
    /\ \E p \in CoreArtifacts :
            /\ seal[p] = "sealed"
            /\ seal' = [seal EXCEPT ![p] = "stale"]
            /\ warned' = warned \ {p}
    /\ UNCHANGED <<storeVars, autoVars, countVars, sealVars, mirrorVars, lateVars,
                   session, reflection, pc, cycle_error, exported, cycles,
                   audit, trusted>>

\* main(): _bootstrap_seed_memory, _append_session(startup),
\* _security_verify_startup; seeded says whether the memory document holds
\* core memories
Startup20 ==
    /\ pc = "off"
    /\ \E seeded \in BOOLEAN :
        /\ seal["memory"] = "sealed" => seeded
        /\ seal["memory"] = "missing" => ~seeded
        /\ LET s1 == IF seeded THEN seal ELSE Sealed(seal, {"memory"})
               t1 == IF seeded THEN {} ELSE Unwarned(seal, warned, {"memory"})
               s2 == Sealed(s1, {"session"})
               t2 == t1 \cup Unwarned(s1, warned, {"session"})
               events == VerifyEvents(s2, <<"memory", "session",
                                            "healing_summary", "export">>)
           IN  /\ session' = Append(session, "startup")
               /\ audit' = AuditAppend(audit, events)
               /\ seal' = Sealed(s2, {"audit"})
               /\ warned' = (warned \ {p \in CoreArtifacts : s2[p] = "sealed"})
                                \cup Mismatched(events)
               /\ trusted' = trusted \cup t2
    /\ pc' = "reflect"
    /\ UNCHANGED <<storeVars, autoVars, countVars, sealVars, mirrorVars, lateVars,
                   reflection, cycle_error, exported, cycles>>

\* reflect_on_session(): reads the session log, appends the reflection,
\* loads the memory document and saves it
Reflect20 ==
    /\ pc = "reflect"
    /\ session' = Append(session, "reflection")
    /\ seal' = Sealed(seal, CoreArtifacts)
    /\ trusted' = trusted \cup Unwarned(seal, warned, CoreArtifacts)
    /\ warned' = warned \ CoreArtifacts
    /\ pc' = "heal"
    /\ UNCHANGED <<storeVars, autoVars, countVars, sealVars, mirrorVars, lateVars,
                   reflection, cycle_error, exported, cycles, audit>>

\* heal_memory(): saves the memory document and the healing summary,
\* appends heal2 to the session log, then _security_verify_cycle
HealMemory20 ==
    /\ pc = "heal"
    /\ LET s1 == Sealed(seal, {"memory", "healing_summary", "session"})
           events == VerifyEvents(s1, <<"memory", "healing_summary",
                                        "session">>)
       IN  /\ session' = Append(session, "heal2")
           /\ audit' = AuditAppend(audit, events)
           /\ seal' = Sealed(s1, {"audit"})
           /\ trusted' = trusted \cup Unwarned(seal, warned, CoreArtifacts)
           /\ warned' = (warned \ CoreArtifacts) \cup Mismatched(events)
    /\ pc' = "evolve"
    /\ UNCHANGED <<storeVars, autoVars, countVars, sealVars, mirrorVars, lateVars,
                   reflection, cycle_error, exported, cycles>>

\* recall_core_memories, evolve_engine, the exports and their verification
Evolve20 ==
    /\ pc = "evolve"
    /\ LET s1 == Sealed(seal, {"memory", "session", "export"})
           events == VerifyEvents(s1, <<"export">>)
       IN  /\ session' = session \o <<"recall", "evolve">>
           /\ audit' = AuditAppend(audit, events)
           /\ seal' = Sealed(s1, {"audit"})
           /\ trusted' = trusted \cup Unwarned(seal, warned, CoreArtifacts)
           /\ warned' = (warned \ CoreArtifacts) \cup Mismatched(events)
    /\ cycles' = cycles + 1
    /\ pc' = "sleep"
    /\ UNCHANGED <<storeVars, autoVars, countVars, sealVars, mirrorVars, lateVars,
                   reflection, cycle_error, exported>>

\* the sleep ends and the next cycle starts: the inbox is empty and there
\* is no commands.json, so the drain and the import change nothing
Wake20 ==
    /\ pc = "sleep"
    /\ cycles < MaxCycles20
    /\ pc' = "reflect"
    /\ UNCHANGED <<storeVars, autoVars, countVars, engine20Vars,
                   session, reflection, cycle_error, exported, cycles>>

(*************************** 20.0: local mirror ****************************)
OpenBracket == 91
CloseBracket == 93

\* members of a document: "_owner": "YZ", a member of the payload, and
\* "_owner": "XX"
OwnerMember == 0
PayloadMember == 1
ForeignOwnerMember == 2

\* the default of _read_json(path, {})
EmptyObject == [kind |-> "object", members |-> <<>>]

\* _read_json(path, {}) of a file: the default when the file is absent or
\* its bytes are no JSON
ReadJson(f) ==
    IF f = <<>> THEN EmptyObject
    ELSE LET b == f[1]
             n == Len(b)
         IN  IF n >= 2 /\ b[1] = OpenBrace /\ b[n] = CloseBrace
             THEN [kind |-> "object", members |-> SubSeq(b, 2, n - 1)]
             ELSE IF n >= 2 /\ b[1] = OpenBracket /\ b[n] = CloseBracket
             THEN [kind |-> "array", members |-> SubSeq(b, 2, n - 1)]
             ELSE EmptyObject

\* data.get("_owner") == OWNER_ID
OwnerOk(d) == OwnerMember \in Range(d.members)

\* the payloads the loop exports
ExportPayloads == {<<PayloadMember>>, <<PayloadMember, PayloadMember>>}

\* _export_write(name, payload): the bytes written
ExportBytes(payload) == Serialize(<<OwnerMember>> \o payload)

\* byte strings put in place of a snapshot outside the guard: a document
\* without owner tag, one of another owner, one tagged "YZ", an array
TamperedSnapshots ==
    { Serialize(<<PayloadMember>>),
      Serialize(<<ForeignOwnerMember, PayloadMember>>),
      Serialize(<<OwnerMember>>),
      <<OpenBracket, PayloadMember, CloseBracket>> }

\* _write_and_hash of an export, first half: _write_json_raw
ExportWriteFile ==
    /\ wpc = "idle"
    /\ \E payload \in ExportPayloads :
            /\ file # <<ExportBytes(payload)>>
            /\ file' = <<ExportBytes(payload)>>
    /\ wpc' = "record"
    /\ UNCHANGED <<sha, verdict, lastFileOp, audit, seal,
                   hpc, data, response, requests>>

\* _write_and_hash of an export, second half: _hash_file and the record
ExportWriteRecord ==
    /\ wpc = "record"
    /\ sha' = HashFile(file)
    /\ wpc' = "idle"
    /\ UNCHANGED <<file, verdict, lastFileOp, audit, seal,
                   hpc, data, response, requests>>

\* a snapshot is replaced outside the guard
TamperSnapshot ==
    /\ \E b \in TamperedSnapshots : file # <<b>> /\ file' = <<b>>
    /\ UNCHANGED <<sha, verdict, lastFileOp, audit, seal, mirrorVars>>

\* _load_checked, line 375: data = _read_json(path, {})
HandlerRead ==
    /\ hpc = "idle"
    /\ requests < MaxRequests
    /\ requests' = requests + 1
    /\ data' = <<[doc |-> ReadJson(file),
                  sealed |-> file # <<>> /\ HashOk(file, sha)]>>
    /\ response' = <<>>
    /\ hpc' = "verify"
    /\ UNCHANGED <<sealVars, audit, seal, wpc>>

\* _load_checked, lines 376-382, and the reply of do_GET
HandlerReply ==
    /\ hpc = "verify"
    /\ LET d == data[1].doc
           hash_ok == HashOk(file, sha)
           sealed == data[1].sealed
                       \/ (d.kind = "object" /\ sha # <<>>
                            /\ sha = HashFile(<<Serialize(d.members)>>))
       IN  IF d.kind # "object"
           THEN /\ response' = <<[kind |-> "raised", served |-> <<>>,
                                  sealed |-> sealed, owner_ok |-> FALSE]>>
                /\ UNCHANGED <<audit, seal>>
           ELSE IF ~hash_ok \/ ~OwnerOk(d)
           THEN /\ audit' = AuditAppend(audit,
                                <<[kind |-> "serve",
                                   status |-> "blocked_or_warn",
                                   hash_ok |-> hash_ok,
                                   owner_ok |-> OwnerOk(d)]>>)
                /\ seal' = Sealed(seal, {"audit"})
                /\ response' = <<[kind |-> "error", served |-> <<>>,
                                  sealed |-> sealed,
                                  owner_ok |-> OwnerOk(d)]>>
           ELSE /\ response' = <<[kind |-> "content", served |-> d.members,
                                  sealed |-> sealed, owner_ok |-> TRUE]>>
                /\ UNCHANGED <<audit, seal>>
    /\ hpc' = "idle"
    /\ data' = <<>>
    /\ UNCHANGED <<sealVars, wpc, requests>>

(*************************** 20.0: console and cancellation ****************
  pc of the 20.0 loop: "top" (the while test), "drain" (the inbox loop),
  "phases" (import to export), "sleep" (the test before a slice), "slice"
  (inside time.sleep(0.1)), "exit".
 ***************************************************************************)
\* lines the user enters: chat, "sleep 1", "stop"
ConsoleLines ==
    { [verb |-> "chat", sec |-> 0],
      [verb |-> "sleep", sec |-> 1000],
      [verb |-> "stop", sec |-> 0] }

\* int(sleep_sec * 10)
SlicesOf(sec) == sec \div 100

\* variant: a flat sleep that does not look at the stop signal
SleepOver_Flat(n, s) == n = 0

\* the for loop of the sleep ends, or `if stop_event.is_set(): break`
SleepOver(n, s) == n = 0 \/ s

\* _input_thread: one line entered and put in the inbox
Enqueue ==
    /\ ~stop
    /\ produced < MaxInputs
    /\ produced' = produced + 1
    /\ \E line \in ConsoleLines : inbox' = Append(inbox, line)
    /\ UNCHANGED <<storeVars, autoVars, loopVars, countVars, guardVars,
                   sealVars, trustVars, mirrorVars, diskVars, moreVars,
                   stop, slices, drained, afterStop>>

\* stop_event.set() by another holder of the event (main's finally)
SetStop ==
    /\ ~stop
    /\ stop' = TRUE
    /\ UNCHANGED <<storeVars, autoVars, loopVars, countVars, guardVars,
                   sealVars, trustVars, mirrorVars, diskVars, moreVars,
                   inbox, slices, drained, produced, afterStop>>

\* while not stop_event.is_set()
TopTest ==
    /\ pc = "top"
    /\ IF stop
       THEN pc' = "exit" /\ UNCHANGED <<cycles, drained>>
       ELSE /\ cycles < MaxCycles20
            /\ cycles' = cycles + 1
            /\ drained' = 0
            /\ pc' = "drain"
    /\ UNCHANGED <<storeVars, autoVars, countVars, guardVars,
                   sealVars, trustVars, mirrorVars, diskVars, moreVars,
                   session, reflection, cycle_error, exported,
                   inbox, stop, slices, produced, afterStop>>

\* cmd = inbox.get_nowait(); _handle_command_or_chat(cmd, sleep_sec)
Dequeue ==
    /\ pc = "drain"
    /\ inbox # <<>>
    /\ LET cmd == Head(inbox)
       IN  /\ inbox' = Tail(inbox)
           /\ drained' = drained + 1
           /\ session' = Append(session, "interaction")
           /\ seal' = Sealed(seal, {"session"})
           /\ sleep_sec' = IF cmd.verb = "sleep"
                           THEN Max(SleepSecMin, Min(SleepSecMax, cmd.sec))
                           ELSE sleep_sec
           /\ stop' = (stop \/ cmd.verb = "stop")
           /\ pc' = IF cmd.verb = "stop" THEN "exit" ELSE "drain"
    /\ UNCHANGED <<storeVars, countVars, audit, sealVars, trustVars,
                   mirrorVars, diskVars, moreVars,
                   rolling_ms, rolling_errors, last_prune, returned, commands,
                   effects, adjusts, imports,
                   reflection, cycle_error, exported, cycles,
                   slices, produced, afterStop>>

\* queue.Empty ends the drain; `if stop_event.is_set(): break`
DrainEmpty ==
    /\ pc = "drain"
    /\ inbox = <<>>
    /\ pc' = IF stop THEN "exit" ELSE "phases"
    /\ UNCHANGED <<storeVars, autoVars, countVars, guardVars,
                   sealVars, trustVars, mirrorVars, diskVars, moreVars,
                   session, reflection, cycle_error, exported, cycles,
                   consoleVars>>

\* import (no commands.json), reflect, heal, recall, evolve, exports,
\* verification; then the sleep is set up
RunPhases20 ==
    /\ pc = "phases"
    /\ LET s1 == Sealed(seal, {"memory", "session", "healing_summary",
                                "export"})
           events == VerifyEvents(s1, <<"memory", "healing_summary",
                                        "session", "export">>)
       IN  /\ session' = session \o <<"reflection", "heal2", "recall",
                                       "evolve">>
           /\ audit' = AuditAppend(audit, events)
           /\ seal' = Sealed(s1, {"audit"})
    /\ slices' = SlicesOf(sleep_sec)
    /\ afterStop' = 0
    /\ pc' = "sleep"
    /\ UNCHANGED <<storeVars, autoVars, countVars, sealVars, trustVars,
                   mirrorVars, diskVars, moreVars,
                   reflection, cycle_error, exported, cycles,
                   inbox, stop, drained, produced>>

\* the test before each slice of the sleep
SleepCheck ==
    /\ pc = "sleep"
    /\ pc' = IF SleepOver(slices, stop) THEN "top" ELSE "slice"
    /\ UNCHANGED <<storeVars, autoVars, countVars, guardVars,
                   sealVars, trustVars, mirrorVars, diskVars, moreVars,
                   session, reflection, cycle_error, exported, cycles,
                   consoleVars>>

\* time.sleep(0.1) returns
SleepSlice ==
    /\ pc = "slice"
    /\ slices' = slices - 1
    /\ afterStop' = IF stop THEN afterStop + 1 ELSE afterStop
    /\ pc' = "sleep"
    /\ UNCHANGED <<storeVars, autoVars, countVars, guardVars,
                   sealVars, trustVars, mirrorVars, diskVars, moreVars,
                   session, reflection, cycle_error, exported, cycles,
                   inbox, stop, drained, produced>>

(*************************** 20.0: load and save ***************************)
\* keys of the memory document: "_meta", "core_memories", "signals"; the
\* codes above them are other keys
MetaMember == 10
CoreMember == 11
SignalsMember == 12
MemberCodes == 10..(9 + MaxMembers)

\* the keys _load_memory makes sure of
RequiredMembers == {MetaMember, CoreMember, SignalsMember}

\* the sequences without repetition over a set of keys
RECURSIVE Arrangements(_)
Arrangements(S) ==
    IF S = {} THEN {<<>>}
    ELSE UNION {{<<k>> \o rest : rest \in Arrangements(S \ {k})} : k \in S}

\* what data/long_term_memory.json can hold: nothing, bytes that are no
\* JSON, an array, an object with any of the keys in any order
MemoryFiles ==
    {<<>>, <<<<PayloadMember>>>>,
     <<<<OpenBracket, CoreMember, CloseBracket>>>>}
        \cup {<<Serialize(m)>> : m \in UNION {Arrangements(S) :
                                                 S \in SUBSET MemberCodes}}

\* variant: the document is used as parsed
AsDict_Unchecked(d) == d

\* if not isinstance(mem, dict): mem = {}
AsDict(d) == IF d.kind = "object" THEN d ELSE EmptyObject

\* _load_memory() on a file: the keys of the result and where each comes
\* from; setdefault on a value that is no dict raises
LoadMemoryOf(f) ==
    LET mem == AsDict(ReadJson(f))
    IN  IF mem.kind # "object"
        THEN [raised |-> TRUE, keys |-> {}, defaulted |-> {}, kept |-> {}]
        ELSE [raised |-> FALSE,
              keys |-> Range(mem.members) \cup RequiredMembers,
              defaulted |-> RequiredMembers \ Range(mem.members),
              kept |-> Range(mem.members)]

\* _load_memory()
LoadMemory20 ==
    /\ loaded = <<>>
    /\ loaded' = <<LoadMemoryOf(file)>>
    /\ UNCHANGED <<storeVars, autoVars, loopVars, countVars, guardVars,
                   sealVars, trustVars, mirrorVars, consoleVars, moreVars,
                   tmpfile, pending, wstep, committed>>

\* the documents saved
SavedDocs == {Serialize(b) : b \in Bodies}

\* variant: the file itself is opened for writing
OpenForWrite_InPlace(primary, temp) ==
    [primary |-> <<<<>>>>, temp |-> temp]

\* open(tmp, "w"): path.tmp is created or emptied
OpenForWrite(primary, temp) == [primary |-> primary, temp |-> <<<<>>>>]

\* _write_json_raw(path, payload) starts
BeginWrite ==
    /\ wstep = "idle"
    /\ \E doc \in SavedDocs :
            /\ file # <<doc>>
            /\ pending' = <<[doc |-> doc, at |-> 0]>>
    /\ committed' = file
    /\ LET opened == OpenForWrite(file, tmpfile)
       IN  file' = opened.primary /\ tmpfile' = opened.temp
    /\ wstep' = "writing"
    /\ UNCHANGED <<storeVars, autoVars, loopVars, countVars, guardVars,
                   sha, verdict, lastFileOp, trustVars, mirrorVars,
                   consoleVars, moreVars, loaded>>

\* json.dump: one more byte reaches path.tmp
WriteChunk ==
    /\ wstep = "writing"
    /\ pending[1].at < Len(pending[1].doc)
    /\ pending' = <<[pending[1] EXCEPT !.at = @ + 1]>>
    /\ tmpfile' = <<Append(tmpfile[1], pending[1].doc[pending[1].at + 1])>>
    /\ UNCHANGED <<storeVars, autoVars, loopVars, countVars, guardVars,
                   sealVars, trustVars, mirrorVars, consoleVars, moreVars,
                   wstep, committed, loaded>>

\* the with block ends: path.tmp is complete and closed
CloseTmp ==
    /\ wstep = "writing"
    /\ pending[1].at = Len(pending[1].doc)
    /\ wstep' = "closed"
    /\ UNCHANGED <<storeVars, autoVars, loopVars, countVars, guardVars,
                   sealVars, trustVars, mirrorVars, consoleVars, moreVars,
                   tmpfile, pending, committed, loaded>>

\* os.replace(tmp, path)
ReplaceFile ==
    /\ wstep = "closed"
    /\ file' = tmpfile
    /\ tmpfile' = <<>>
    /\ committed' = tmpfile
    /\ pending' = <<>>
    /\ wstep' = "idle"
    /\ lastFileOp' = "write"
    /\ UNCHANGED <<storeVars, autoVars, loopVars, countVars, guardVars,
                   sha, verdict, trustVars, mirrorVars,
                   consoleVars, moreVars, loaded>>

\* the process dies during a write; the files stay as they are
Crash ==
    /\ wstep \in {"writing", "closed"}
    /\ wstep' = "crashed"
    /\ UNCHANGED <<storeVars, autoVars, loopVars, countVars, guardVars,
                   sealVars, trustVars, mirrorVars, consoleVars, moreVars,
                   tmpfile, pending, committed, loaded>>

\* the engine is started again
Restart ==
    /\ wstep = "crashed"
    /\ wstep' = "idle"
    /\ pending' = <<>>
    /\ committed' = file
    /\ UNCHANGED <<storeVars, autoVars, loopVars, countVars, guardVars,
                   sealVars, trustVars, mirrorVars, consoleVars, moreVars,
                   tmpfile, loaded>>

(*************************** 7.0, 8.5, 14.0: unknown keys ******************
  A memory document is [kind, top, extras]: top maps each key the schema
  does not know to its value (0: the key is absent); extras is the
  "extras" member: [kind |-> "absent"] when the document has none,
  kind "other" when it is not an object, kind "object" with its map (a map
  like top) when it is one.
 ***************************************************************************)
UnknownKeys == {"foo", "bar"}
KeyValues == {1, 2}

\* the maps from keys to values, 0 for an absent key
KeyMaps == [UnknownKeys -> KeyValues \cup {0}]
NoKeys == [k \in UnknownKeys |-> 0]

NoExtras == [kind |-> "absent", map |-> NoKeys]
OtherExtras == [kind |-> "other", map |-> NoKeys]
ObjectExtras(m) == [kind |-> "object", map |-> m]

\* what can be found on disk: an array, or an object with any unknown keys
\* and any "extras" member
StoreDocs ==
    {[kind |-> "array", top |-> NoKeys, extras |-> NoExtras]}
        \cup [kind : {"object"}, top : KeyMaps,
               extras : {NoExtras, OtherExtras}
                            \cup {ObjectExtras(m) : m \in KeyMaps}]

\* extras[k] = v for every key of top
Quarantine(m, top) == [k \in UnknownKeys |-> IF top[k] # 0 THEN top[k] ELSE m[k]]

\* Memory.load of 7.0
Load7(d) ==
    IF d.kind # "object"
    THEN [raised |-> FALSE, top |-> NoKeys, extras |-> ObjectExtras(NoKeys)]
    ELSE LET extras == IF d.extras.kind = "object" THEN d.extras.map
                       ELSE NoKeys
         IN  [raised |-> FALSE, top |-> NoKeys,
              extras |-> ObjectExtras(Quarantine(extras, d.top))]

\* Memory.load of 8.5: the quarantined keys go into base["extras"], which
\* is copied into the document only when it has no "extras" member
Load85(d) ==
    IF d.kind # "object"
    THEN [raised |-> TRUE, top |-> NoKeys, extras |-> NoExtras]
    ELSE [raised |-> FALSE, top |-> d.top,
          extras |-> IF d.extras.kind = "absent"
                     THEN ObjectExtras(Quarantine(NoKeys, d.top))
                     ELSE d.extras]

\* _load_memory of 14.0: the document is used as it is
Load14(d) ==
    IF d.kind # "object"
    THEN [raised |-> FALSE, top |-> NoKeys, extras |-> NoExtras]
    ELSE [raised |-> FALSE, top |-> d.top, extras |-> d.extras]

LoadOf(engine, d) ==
    IF engine = "7.0" THEN Load7(d)
    ELSE IF engine = "8.5" THEN Load85(d) ELSE Load14(d)

\* Memory.load() / _load_memory()
LoadDocument ==
    /\ loads < MaxLoads
    /\ memdata = <<>>
    /\ loads' = loads + 1
    /\ memdata' = <<LoadOf(orig.engine, diskdoc)>>
    /\ UNCHANGED <<diskdoc, orig>>

\* Memory.save() / _save_memory(mem): the data become the document
SaveDocument ==
    /\ memdata # <<>>
    /\ ~memdata[1].raised
    /\ diskdoc' = [kind |-> "object", top |-> memdata[1].top,
                   extras |-> memdata[1].extras]
    /\ memdata' = <<>>
    /\ UNCHANGED <<orig, loads>>


(*************************** 20.0: recall **********************************)
\* _key(it)[0] of 20.0, in units of 1e-6: score - penalty and nothing else
Key20(it) == 1000 * (it.score - it.penalty)

\* key(a) > key(b) for the key (score - penalty, last_seen)
RanksBefore20(a, b) ==
    \/ Key20(a) > Key20(b)
    \/ Key20(a) = Key20(b) /\ a.last_seen > b.last_seen

RECURSIVE RankInsert20(_, _)
RankInsert20(x, s) ==
    IF s = <<>> THEN <<x>>
    ELSE IF RanksBefore20(x, Head(s)) THEN <<x>> \o s
    ELSE <<Head(s)>> \o RankInsert20(x, Tail(s))

\* sorted(items, key=_key, reverse=True)
RECURSIVE Ranked20(_, _)
Ranked20(items, n) ==
    IF n = 0 THEN <<>>
    ELSE RankInsert20(items[n], Ranked20(items, n - 1))

\* recall_core_memories(limit) of 20.0 on a list of items
RecallOf20(items, limit) ==
    IF items = <<>> THEN <<>>
    ELSE SubSeq(Ranked20(items, Len(items)), 1,
                Min(Len(items), Max(1, limit)))

\* the limits the recalls of the ranking runs are called with
RankLimits == {0 - 1, 0, 1, 2}

\* recall_core_memories of 14.0 with any limit
Recall14 ==
    /\ lastOp = "heal"
    /\ \E limit \in RankLimits :
            recalled' = RecallOf(store, limit, recentValence)
    /\ lastOp' = "recall"
    /\ UNCHANGED <<store, prev, origin, uuidCount, now, healStreak, pulse,
                   prevPulse, recentValence, evolves, changed>>

\* recall_core_memories of 20.0 with any limit
Recall20 ==
    /\ lastOp = "heal"
    /\ \E limit \in RankLimits : recalled' = RecallOf20(store, limit)
    /\ lastOp' = "recall20"
    /\ UNCHANGED <<store, prev, origin, uuidCount, now, healStreak, pulse,
                   prevPulse, recentValence, evolves, changed>>

\* healed records to rank: [score, penalty, health, last_seen, valence]
Profiles ==
    { [score |-> 500, penalty |-> 200, health |-> "anomalous",
       last_seen |-> 0, valence |-> 0],
      [score |-> 280, penalty |-> 0, health |-> "ok",
       last_seen |-> 0, valence |-> 0],
      [score |-> 300, penalty |-> 0, health |-> "healed",
       last_seen |-> 1, valence |-> 0],
      [score |-> 300, penalty |-> 0, health |-> "healed",
       last_seen |-> 0, valence |-> 200] }

Profiled(id, p) ==
    [Rec(id, "x", <<id>>, p.penalty, p.health) EXCEPT
        !.score = p.score, !.last_seen = p.last_seen,
        !.affect = [BaseAffect EXCEPT !.valence = p.valence]]

\* the stores Heal leaves: ids and signatures differ
HealedStores ==
    {s \in UNION {[1..n -> {Profiled(id, p) : id \in 1..MaxStored,
                                               p \in Profiles}] :
                    n \in 0..MaxStored} :
        \A i, j \in 1..Len(s) : s[i].id = s[j].id => i = j}


(*************************** 20.0: appending to the audit log ***************
  _append_audit reads the log, appends the event to what it has read and
  writes the result back; the loop (_security_verify_cycle) and the request
  handler (_load_checked), which runs in the thread of the local mirror,
  both call it and nothing orders the two calls.  Each call is a read
  step and a write step; the write step is _write_and_hash as a whole, so
  the two writers are never inside _write_json_raw, which uses one
  temporary file for both, at the same time.
 ***************************************************************************)
\* calls of _append_audit in progress
Appending == (IF lread = <<>> THEN 0 ELSE 1) + (IF hread = <<>> THEN 0 ELSE 1)

\* the event of the n-th append
AuditEvent(kind, n) == [kind |-> kind, n |-> n]

\* audit = _read_json(AUDIT_LOG_PATH, ...) in the loop
LoopAuditRead ==
    /\ lread = <<>>
    /\ Len(appended) + Appending < MaxAppends
    /\ lread' = <<audit>>
    /\ UNCHANGED <<audit, seal, hread, appended>>

\* audit["history"].append(event); _write_and_hash(AUDIT_LOG_PATH, audit)
LoopAuditWrite ==
    /\ lread # <<>>
    /\ LET event == AuditEvent("verify", Len(appended) + 1)
       IN  /\ audit' = Append(lread[1], event)
           /\ appended' = Append(appended, event)
    /\ seal' = Sealed(seal, {"audit"})
    /\ lread' = <<>>
    /\ UNCHANGED hread

\* the same in _load_checked, for a request that is blocked
HandlerAuditRead ==
    /\ hread = <<>>
    /\ Len(appended) + Appending < MaxAppends
    /\ hread' = <<audit>>
    /\ UNCHANGED <<audit, seal, lread, appended>>

HandlerAuditWrite ==
    /\ hread # <<>>
    /\ LET event == AuditEvent("serve", Len(appended) + 1)
       IN  /\ audit' = Append(hread[1], event)
           /\ appended' = Append(appended, event)
    /\ seal' = Sealed(seal, {"audit"})
    /\ hread' = <<>>
    /\ UNCHANGED lread


(*************************** the loop of 20.0 over one document **************)
\* what a top-level field of data/long_term_memory.json can be
Shapes == {"absent", "object", "list", "number", "null"}

MemoryShapes == [meta : Shapes, core : Shapes, signals : Shapes]

\* _load_memory() on a document that is an object: setdefault fills only
\* the keys that are absent
LoadShape(doc) ==
    [meta |-> IF doc.meta = "absent" THEN "object" ELSE doc.meta,
     core |-> IF doc.core = "absent" THEN "list" ELSE doc.core,
     signals |-> IF doc.signals = "absent" THEN "object" ELSE doc.signals]

\* _save_memory(mem): mem["_meta"]["schema_version"] = ... raises on a
\* _meta that is no dict, before anything is written
SaveRaises(mem) == mem.meta # "object"

\* the except branch of the loop: the cycle is over, the next one starts
\* after the sleep
CycleFails ==
    /\ failed20' = failed20 + 1
    /\ step20' = "import"
    /\ UNCHANGED <<memshape, passed20>>

Running20 == failed20 + passed20 < MaxShapeCycles

\* import_commands_if_any() of 20.0 for the owner: a push loads the
\* document, appends to core_memories and saves
ShapeImport ==
    /\ step20 = "import"
    /\ Running20
    /\ \E push \in BOOLEAN :
         LET mem == LoadShape(memshape)
         IN  IF push /\ (mem.core # "list" \/ SaveRaises(mem))
             THEN CycleFails
             ELSE /\ memshape' = IF push THEN mem ELSE memshape
                  /\ step20' = "reflect"
                  /\ UNCHANGED <<failed20, passed20>>

\* reflect_on_session(): sig = mem.get("signals", {});
\* sig["recent_affect"] = ...; _save_memory(mem)
ShapeReflect ==
    /\ step20 = "reflect"
    /\ LET mem == LoadShape(memshape)
       IN  IF mem.signals # "object" \/ SaveRaises(mem)
           THEN CycleFails
           ELSE /\ memshape' = mem
                /\ step20' = "affect"
                /\ UNCHANGED <<failed20, passed20>>

\* mem.get("signals", {}).get("recent_affect", ...) in the loop
ShapeAffect ==
    /\ step20 = "affect"
    /\ IF LoadShape(memshape).signals # "object"
       THEN CycleFails
       ELSE /\ step20' = "heal"
            /\ UNCHANGED <<memshape, failed20, passed20>>

\* heal_memory(): if not isinstance(raw, list): raw = [];
\* mem["core_memories"] = healed; _save_memory(mem)
ShapeHeal ==
    /\ step20 = "heal"
    /\ LET mem == LoadShape(memshape)
       IN  IF SaveRaises(mem)
           THEN CycleFails
           ELSE /\ memshape' = [mem EXCEPT !.core = "list"]
                /\ step20' = "recall"
                /\ UNCHANGED <<failed20, passed20>>

\* recall_core_memories(): a core_memories that is no list recalls nothing;
\* the document is not saved
ShapeRecall ==
    /\ step20 = "recall"
    /\ step20' = "evolve"
    /\ UNCHANGED <<memshape, failed20, passed20>>

\* evolve_engine(): walks core_memories and saves; the exports that follow
\* do not read the document
ShapeEvolve ==
    /\ step20 = "evolve"
    /\ LET mem == LoadShape(memshape)
       IN  IF mem.core \in {"number", "null"} \/ SaveRaises(mem)
           THEN CycleFails
           ELSE /\ memshape' = mem
                /\ passed20' = passed20 + 1
                /\ step20' = "import"
                /\ UNCHANGED failed20


(*************************** analyze_emotion of 14.0 ************************)
\* a text is the sequence of its characters
POSITIVE ==
    {<<"w", "i", "n">>,
     <<"s", "u", "c", "c", "e", "s", "s">>,
     <<"s", "t", "a", "b", "l", "e">>,
     <<"g", "r", "o", "w", "t", "h">>,
     <<"c", "l", "e", "a", "r">>,
     <<"g", "o", "o", "d">>,
     <<"g", "r", "e", "a", "t">>,
     <<"l", "o", "v", "e">>,
     <<"p", "r", "o", "u", "d">>,
     <<"r", "e", "a", "d", "y">>,
     <<"f", "o", "c", "u", "s">>}

NEGATIVE ==
    {<<"e", "r", "r", "o", "r">>,
     <<"f", "a", "i", "l">>,
     <<"b", "u", "g">>,
     <<"l", "o", "s", "t">>,
     <<"m", "a", "d">>,
     <<"a", "n", "g", "r", "y">>,
     <<"s", "a", "d">>,
     <<"r", "i", "s", "k">>,
     <<"b", "a", "d">>,
     <<"c", "o", "n", "f", "l", "i", "c", "t">>,
     <<"b", "l", "o", "c", "k">>,
     <<"h", "i", "c", "c", "u", "p">>}

HIGH_AROUSAL ==
    {<<"a", "l", "e", "r", "t">>,
     <<"u", "r", "g", "e", "n", "t">>,
     <<"n", "o", "w">>,
     <<"f", "a", "s", "t">>,
     <<"h", "o", "t">>,
     <<"f", "i", "r", "e">>,
     <<"l", "a", "u", "n", "c", "h">>,
     <<"p", "r", "e", "s", "s", "u", "r", "e">>,
     <<"i", "n", "t", "e", "n", "s", "e">>,
     <<"c", "r", "a", "s", "h">>}

LOW_AROUSAL ==
    {<<"c", "a", "l", "m">>,
     <<"s", "t", "e", "a", "d", "y">>,
     <<"c", "h", "i", "l", "l">>,
     <<"s", "l", "o", "w">>,
     <<"i", "d", "l", "e">>,
     <<"r", "e", "s", "t">>}

UpperCase ==
    <<"A", "B", "C", "D", "E", "F", "G", "H", "I", "J", "K", "L", "M",
      "N", "O", "P", "Q", "R", "S", "T", "U", "V", "W", "X", "Y", "Z">>

LowerCase ==
    <<"a", "b", "c", "d", "e", "f", "g", "h", "i", "j", "k", "l", "m",
      "n", "o", "p", "q", "r", "s", "t", "u", "v", "w", "x", "y", "z">>

\* str.lower() of one character
LowerChar(c) ==
    IF \E k \in 1..Len(UpperCase) : UpperCase[k] = c
    THEN LowerCase[CHOOSE k \in 1..Len(UpperCase) : UpperCase[k] = c]
    ELSE c

\* text.lower()
Lower(t) == [k \in 1..Len(t) |-> LowerChar(t[k])]

\* w in t
Contains(w, t) ==
    \E k \in 1..(Len(t) - Len(w) + 1) : SubSeq(t, k, k + Len(w) - 1) = w

\* how often w occurs in t
Occurrences(w, t) ==
    Cardinality({k \in 1..(Len(t) - Len(w) + 1) :
                    SubSeq(t, k, k + Len(w) - 1) = w})

\* variant: every occurrence of a keyword counts
HitCount_Occurrences(words, t) ==
    LET RECURSIVE Sum(_)
        Sum(S) == IF S = {} THEN 0
                  ELSE LET w == CHOOSE x \in S : TRUE
                       IN  Occurrences(w, t) + Sum(S \ {w})
    IN  Sum(words)

\* sum(1 for w in words if w in t)
HitCount(words, t) ==
    LET RECURSIVE Sum(_)
        Sum(S) == IF S = {} THEN 0
                  ELSE LET w == CHOOSE x \in S : TRUE
                       IN  (IF Contains(w, t) THEN 1 ELSE 0) + Sum(S \ {w})
    IN  Sum(words)

\* any(w in t for w in words)
AnyHit(words, t) == \E w \in words : Contains(w, t)

\* not text.strip()
Blank(t) == \A k \in 1..Len(t) : t[k] = " "

\* analyze_emotion(text), in thousandths
AnalyzeEmotion(arg) ==
    IF ~arg.text \/ Blank(arg.chars)
    THEN [valence |-> 0, arousal |-> 200, labels |-> <<>>]
    ELSE LET t == Lower(arg.chars)
             val == 200 * HitCount(POSITIVE, t) - 250 * HitCount(NEGATIVE, t)
             aro == 200 + 150 * HitCount(HIGH_AROUSAL, t)
                        - 100 * HitCount(LOW_AROUSAL, t)
             labels ==
                 (IF AnyHit(POSITIVE, t) THEN <<"positive">> ELSE <<>>)
                 \o (IF AnyHit(NEGATIVE, t) THEN <<"negative">> ELSE <<>>)
                 \o (IF AnyHit(HIGH_AROUSAL, t)
                     THEN <<"high_arousal">> ELSE <<>>)
                 \o (IF AnyHit(LOW_AROUSAL, t)
                     THEN <<"low_arousal">> ELSE <<>>)
         IN  [valence |-> Clip(val, 0 - 1000, 1000),
              arousal |-> Clip(aro, 0, 1000),
              labels |-> labels]

\* the pieces the texts are made of
Pieces ==
    {<<" ">>,
     <<"w", "i", "n">>,
     <<"W", "I", "N">>,
     <<"k", "n", "o", "w">>,
     <<"B", "a", "d", "g", "e">>,
     <<"r", "e", "s", "t">>,
     <<"x">>,
     <<"w", "i", "n", " ", "s", "u", "c", "c", "e", "s", "s", " ", "s", "t", "a", "b", "l", "e", " ", "g", "r", "o", "w", "t", "h", " ", "c", "l", "e", "a", "r", " ", "g", "o", "o", "d">>,
     <<"e", "r", "r", "o", "r", " ", "f", "a", "i", "l", " ", "b", "u", "g", " ", "l", "o", "s", "t", " ", "m", "a", "d">>,
     <<"a", "l", "e", "r", "t", " ", "u", "r", "g", "e", "n", "t", " ", "n", "o", "w", " ", "f", "a", "s", "t", " ", "h", "o", "t", " ", "f", "i", "r", "e">>,
     <<"c", "a", "l", "m", " ", "s", "t", "e", "a", "d", "y", " ", "c", "h", "i", "l", "l">>}

RECURSIVE TextsOf(_)
TextsOf(n) ==
    IF n = 0 THEN {<<>>}
    ELSE TextsOf(n - 1)
            \cup {t \o p : t \in TextsOf(n - 1), p \in Pieces}

\* the arguments: texts, and a value that is no text
Samples ==
    {[text |-> TRUE, chars |-> t] : t \in TextsOf(MaxPieces)}
        \cup {[text |-> FALSE, chars |-> <<>>]}

\* a call of analyze_emotion
Analyze ==
    /\ analysed = <<>>
    /\ analysed' = <<AnalyzeEmotion(sample)>>
    /\ UNCHANGED sample


(*************************** 20.0: heal_memory on the records ***************)
\* one iteration of the loop of heal_memory of 20.0 on raw entry it
HealStep20(acc, it, idx, t) ==
    IF acc.raised THEN acc
    ELSE
    LET norm == NormalizeItem20(it, 0 - (acc.uuid + 1), t)
        u1 == IF NeedsUuid(it) THEN acc.uuid + 1 ELSE acc.uuid
        rep == acc.repaired + (IF ~it.dict \/ it # norm THEN 1 ELSE 0)
    IN  IF SortRaises(norm.tags) THEN [acc EXCEPT !.raised = TRUE, !.uuid = u1]
        ELSE
        LET sig == Signature(norm)
        IN  IF sig \in acc.seen_sig
            THEN [acc EXCEPT !.dedup_sig = @ + 1, !.repaired = rep,
                             !.uuid = u1]
            ELSE
            LET dupId == IdSeen(norm.id, acc.seen_ids)
                n1 == IF dupId
                      THEN [norm EXCEPT !.id = 0 - (u1 + 1),
                                        !.health = "healed",
                                        !.penalty = IdDedupPenalty(@)]
                      ELSE norm
                u2 == IF dupId THEN u1 + 1 ELSE u1
                empty == n1.content = ""
                n2 == IF empty
                      THEN [n1 EXCEPT !.health = "anomalous",
                                      !.penalty = AnomalousPenalty(@)]
                      ELSE n1
            IN  [acc EXCEPT
                    !.healed = Append(@, n2),
                    !.src = Append(@, idx),
                    !.seen_sig = @ \cup {sig},
                    !.seen_ids = @ \cup {n1.id},
                    !.dedup_ids = @ + (IF dupId THEN 1 ELSE 0),
                    !.repaired = rep,
                    !.anomalous_marked = @ + (IF empty THEN 1 ELSE 0),
                    !.uuid = u2]

\* the loop "for it in raw" of heal_memory of 20.0 over items[1..n]
RECURSIVE HealLoop20(_, _, _, _)
HealLoop20(items, n, uuid, t) ==
    IF n = 0 THEN HealStart(uuid)
    ELSE HealStep20(HealLoop20(items, n - 1, uuid, t), items[n], n, t)

\* heal_memory() of 20.0: an exception in the loop leaves every file as it
\* was; otherwise the memory document and the healing summary are saved,
\* heal2 is appended to the session log and the three files are verified
HealRecords20 ==
    LET acc == HealLoop20(store, Len(store), uuidCount, now)
        s1 == Sealed(seal, {"memory", "healing_summary", "session"})
        events == VerifyEvents(s1, <<"memory", "healing_summary", "session">>)
    IN  /\ prev' = store
        /\ prevPulse' = pulse
        /\ IF acc.raised
           THEN /\ lastOp' = "heal_raised"
                /\ healStreak' = 0
                /\ origin' = <<>>
                /\ UNCHANGED <<store, pulse, uuidCount, session, audit, seal,
                               trusted, warned>>
           ELSE /\ lastOp' = "heal"
                /\ uuidCount' = acc.uuid
                /\ healStreak' = Min(healStreak + 1, 2)
                /\ store' = acc.healed
                /\ origin' = acc.src
                /\ pulse' = HealPulse(DetectAnomalies(store), acc)
                /\ session' = Append(session, "heal2")
                /\ audit' = AuditAppend(audit, events)
                /\ seal' = Sealed(s1, {"audit"})
                /\ trusted' = trusted \cup Unwarned(seal, warned, CoreArtifacts)
                /\ warned' = (warned \ CoreArtifacts) \cup Mismatched(events)
        /\ UNCHANGED <<now, recentValence, recalled, evolves, changed>>

(*************************** resilience of large stores ********************)
\* the store size from which one record that is not ok no longer shows in
\* round(ok_count / total, 3)
RoundingEdge == 2000

\* totals of small stores and of stores just above the edge (2000 itself is
\* left out: there ok_count / total falls half-way between two thousandths,
\* and the result follows the binary value of the quotient)
Totals == (1..MaxSpan) \cup ((RoundingEdge + 1)..(RoundingEdge + MaxSpan))

CountPairs ==
    {[ok |-> k, total |-> n] : n \in Totals, k \in 0..(RoundingEdge + MaxSpan)}

NoCounts ==
    /\ counts = [ok |-> 0, total |-> 0]
    /\ rounded = <<>>

\* line 235 of heal_memory on the counts of a healed store
ComputeResilience ==
    /\ rounded = <<>>
    /\ rounded' = <<Resilience(counts.ok, counts.total)>>
    /\ UNCHANGED <<storeVars, autoVars, loopVars, counts, engine20Vars>>

(*************************** healing specification *************************)
\* the state before the first operation on a persisted list of entries
InitStore(stores) ==
    /\ store \in stores
    /\ prev = <<>>
    /\ origin = <<>>
    /\ uuidCount = 0
    /\ now = 0
    /\ lastOp = "init"
    /\ healStreak = 0
    /\ pulse = NoPulse
    /\ prevPulse = NoPulse
    /\ recentValence = 200
    /\ recalled = <<>>
    /\ evolves = 0
    /\ changed = 0

\* heal_memory called any number of times on any persisted list
InitHeal ==
    InitStore(RawStores(MaxLen)) /\ InitAuto /\ InitLoop({<<>>}) /\ NoCounts
        /\ Idle20

NextHeal ==
    \/ Heal /\ UNCHANGED <<autoVars, loopVars, countVars, engine20Vars>>
    \/ Tick /\ UNCHANGED <<autoVars, loopVars, countVars, engine20Vars>>

SpecHeal == InitHeal /\ [][NextHeal]_vars

(*************************** cycle specification ***************************)
\* the Heal -> Recall -> Evolve phases of the loop, and a "heal" typed in
\* between, on any persisted list
InitCycle ==
    InitStore(RawStores(MaxCycleLen)) /\ InitAuto /\ InitLoop({<<>>})
        /\ NoCounts /\ Idle20

NextCycle ==
    \/ Heal /\ UNCHANGED <<autoVars, loopVars, countVars, engine20Vars>>
    \/ Recall /\ UNCHANGED <<autoVars, loopVars, countVars, engine20Vars>>
    \/ Evolve /\ UNCHANGED <<autoVars, loopVars, countVars, engine20Vars>>
    \/ Tick /\ UNCHANGED <<autoVars, loopVars, countVars, engine20Vars>>

SpecCycle == InitCycle /\ [][NextCycle]_vars

(*************************** resilience specification ********************)
InitResilience ==
    /\ InitStore({<<>>})
    /\ InitAuto
    /\ InitLoop({<<>>})
    /\ counts \in {c \in CountPairs :
                        c.ok <= c.total /\ c.total - c.ok <= MaxSpan}
    /\ rounded = <<>>
    /\ Idle20

NextResilience == ComputeResilience

SpecResilience == InitResilience /\ [][NextResilience]_vars

(*************************** properties of Heal ****************************)
\* the (content, sorted tags) signature of a stored record
ContentSig(r) == <<r.content, Sorted(r.tags)>>

\* content and tags of raw entry it after normalization
NormContent(it) == IF Good(it, "content") THEN StrContent(it.content) ELSE ""
NormTags(it) == IF Good(it, "tags") THEN it.tags ELSE <<>>
RawSig(it) == <<NormContent(it), Sorted(NormTags(it))>>

HealDone == lastOp = "heal"
Kept == 1..Len(store)
Input == 1..Len(prev)

\* C1: a Heal pass that directly follows a completed Heal pass drops no
\* record, re-issues no id, changes no field of any record and reports the
\* post-health counts and resilience of the pass before it.
C1_HealIdempotent ==
    (HealDone /\ healStreak = 2) =>
        /\ store = prev
        /\ origin = [k \in Input |-> k]
        /\ pulse.repairs.dedup_ids = 0
        /\ pulse.post_health = prevPulse.post_health

C1_Witness ==
    /\ HealDone /\ healStreak = 2
    /\ Len(store) >= 2
    /\ \E k \in Kept : store[k].health = "anomalous" /\ store[k].penalty = 200
    /\ \E k \in Kept : store[k].id < 0 /\ store[k].health = "healed"

\* C2: after a completed Heal pass no two stored records have the same id
\* and no two have the same (content, sorted tags) signature.
C2_UniqueIdsAndSignatures ==
    HealDone =>
        \A i, j \in Kept :
            i # j => /\ store[i].id # store[j].id
                     /\ ContentSig(store[i]) # ContentSig(store[j])

C2_Witness ==
    /\ HealDone
    /\ pulse.repairs.dedup_ids >= 1
    /\ pulse.repairs.dedup_signature >= 1
    /\ Len(store) >= 2

\* C3 as stated: every input entry whose content is empty after
\* normalization is in the store after Heal, anomalous with penalty >= 0.2,
\* so Heal keeps the number of empty-content records.
C3_EveryEmptyEntryKept ==
    HealDone =>
        /\ \A i \in Input :
              NormContent(prev[i]) = "" =>
                \E k \in Kept : /\ origin[k] = i
                                 /\ store[k].health = "anomalous"
                                 /\ store[k].penalty >= 200
        /\ Cardinality({k \in Kept : store[k].content = ""})
             = Cardinality({i \in Input : NormContent(prev[i]) = ""})

FirstOfSignature(i) ==
    \A j \in Input : j < i => RawSig(prev[j]) # RawSig(prev[i])

\* C3 (amended): every input entry whose content is empty after
\* normalization and whose signature did not occur earlier in the input is
\* in the store after Heal, anomalous with penalty >= 0.2; the later
\* entries with that signature are dropped by the signature dedup, so the
\* store holds one empty-content record per distinct sorted tag list.
C3_FirstEmptyEntryKept ==
    HealDone =>
        /\ \A i \in Input :
              (NormContent(prev[i]) = "" /\ FirstOfSignature(i)) =>
                \E k \in Kept : /\ origin[k] = i
                                 /\ store[k].content = ""
                                 /\ store[k].health = "anomalous"
                                 /\ store[k].penalty >= 200
        /\ Cardinality({k \in Kept : store[k].content = ""})
             = Cardinality({Sorted(NormTags(prev[i])) :
                              i \in {j \in Input : NormContent(prev[j]) = ""}})

C3_Witness ==
    /\ HealDone
    /\ Cardinality({i \in Input : NormContent(prev[i]) = ""}) = 3
    /\ Cardinality({k \in Kept : store[k].content = ""}) = 2
    /\ \E k \in Kept : store[k].content = "" /\ store[k].penalty > 200

SameSignature(i) == {j \in Input : RawSig(prev[j]) = RawSig(prev[i])}

\* C4: of the N input records that share one (content, sorted tags)
\* signature exactly one is in the store after Heal, it is the first of
\* them in input order, and the N-1 others are counted in dedup_signature
\* (the counter is the sum of N-1 over the signatures of the input).
C4_SignatureDedup ==
    HealDone =>
        /\ \A i \in Input :
              \E k \in Kept :
                /\ origin[k] \in SameSignature(i)
                /\ \A j \in SameSignature(i) : origin[k] <= j
                /\ \A m \in Kept : origin[m] \in SameSignature(i) => m = k
        /\ pulse.repairs.dedup_signature
             = Len(prev) - Cardinality({RawSig(prev[i]) : i \in Input})

C4_Witness ==
    /\ HealDone
    /\ Len(prev) = 3 /\ Len(store) = 1
    /\ pulse.repairs.dedup_signature = 2
    /\ prev[1].tags # prev[2].tags
    /\ prev[1].id # prev[2].id

\* C5: a record that is in the store after Heal has a penalty that is not
\* below the numeric penalty its input entry carried.
C5_PenaltyNeverLowered ==
    HealDone =>
        \A k \in Kept :
            Good(prev[origin[k]], "penalty") =>
                store[k].penalty >= prev[origin[k]].penalty

C5_Witness ==
    /\ HealDone
    /\ \E k \in Kept : /\ store[k].id < 0
                         /\ prev[origin[k]].id > 0
                         /\ store[k].penalty = 400
    /\ \E k \in Kept : /\ store[k].health = "anomalous"
                         /\ store[k].penalty = 5000

\* C6 as stated: after a completed Heal pass and after the Recall and
\* Evolve operations that follow it every stored penalty is in [0, 1].
C6_PenaltyInUnitRange ==
    lastOp \in {"heal", "recall", "evolve"} =>
        \A k \in Kept : 0 <= store[k].penalty /\ store[k].penalty <= 1000

\* C7 as stated: the resilience Heal returns is in [0, 1] and is 1.0
\* exactly when every record of the healed store has health ok.
C7_ResilienceOneIffAllOk ==
    /\ HealDone =>
        /\ 0 <= pulse.post_health.resilience
        /\ pulse.post_health.resilience <= 1000
        /\ (pulse.post_health.resilience = 1000)
             <=> (pulse.post_health.ok = pulse.post_health.total)
    /\ rounded # <<>> =>
        /\ 0 <= rounded[1]
        /\ rounded[1] <= 1000
        /\ (rounded[1] = 1000) <=> (counts.ok = counts.total)

\* C10 as stated: heal_memory never raises, whatever the raw entries are.
C10_HealNeverRaises == lastOp # "heal_raised"

(*************************** autonomy specification ************************)
\* the seeded store of _bootstrap_seed_memory
SeedStore == <<Rec(0 - 1, "x", <<1, 2, 3>>, 0, "ok")>>

InitAutonomy ==
    /\ InitStore({SeedStore})
    /\ InitAuto
    /\ InitLoop({<<>>})
    /\ NoCounts
    /\ Idle20

NextAutonomy ==
    \/ AutonomyAdjust /\ UNCHANGED <<loopVars, countVars, engine20Vars>>
    \/ ImportCommands /\ UNCHANGED <<loopVars, countVars, engine20Vars>>
    \/ WriteCommands /\ UNCHANGED <<loopVars, countVars, engine20Vars>>

SpecAutonomy == InitAutonomy /\ [][NextAutonomy]_vars

InRange(s) == SleepSecMin <= s /\ s <= SleepSecMax

\* C8: starting from the base sleep of 5.0, after any sequence of
\* autonomy_controller calls and set_sleep commands the stored sleep_sec
\* and the sleep_sec autonomy_controller returns are within [2.0, 15.0].
C8_SleepClamped ==
    /\ InRange(sleep_sec)
    /\ returned # <<>> => InRange(returned[1].sleep_sec)
    /\ effects.set_sleep # <<>> => InRange(effects.set_sleep[1])

C8_Witness ==
    /\ sleep_sec = SleepSecMax
    /\ returned # <<>> /\ returned[1].sleep_sec = SleepSecMax
    /\ Len(rolling_errors) >= 2
    /\ effects.set_sleep = <<14900>>

(*************************** loop specification ****************************)
\* stores the loop starts with
LoopStores == RawStores(1)

InitSelfMechanism ==
    /\ InitStore(LoopStores)
    /\ InitAutoWith(CommandDocs \cup {NoCommands})
    /\ InitLoop(SessionLogs)
    /\ NoCounts
    /\ Idle20

NextSelfMechanism ==
    \/ LoopImport /\ UNCHANGED <<countVars, engine20Vars>>
    \/ LoopReflect /\ UNCHANGED <<countVars, engine20Vars>>
    \/ LoopHeal /\ UNCHANGED <<countVars, engine20Vars>>
    \/ LoopRecall /\ UNCHANGED <<countVars, engine20Vars>>
    \/ LoopEvolve /\ UNCHANGED <<countVars, engine20Vars>>
    \/ LoopAdjust /\ UNCHANGED <<countVars, engine20Vars>>
    \/ LoopExport /\ UNCHANGED <<countVars, engine20Vars>>
    \/ LoopSleep /\ UNCHANGED <<countVars, engine20Vars>>
    \/ LoopCancel /\ UNCHANGED <<countVars, engine20Vars>>
    \/ pc = "sleep" /\ WriteCommands /\ UNCHANGED <<loopVars, countVars, engine20Vars>>

\* commands.json is read by the import step only, so a writer acting at any
\* other moment is seen as one acting before the start or during a cooldown
SpecSelfMechanism == InitSelfMechanism /\ [][NextSelfMechanism]_vars

\* C9: the loop never exits except on explicit cancellation: an exception of
\* any phase of any cycle is caught, the controller is called with
\* had_error true, and the loop goes on to its sleep and the next cycle.
C9_LoopNeverCrashes == pc # "crashed"

(*************************** 20.0 import specification *********************)
InitImport20 ==
    /\ InitStore({<<Seed20>>})
    /\ InitAutoFrom({NoCommands20}, NoEffects20)
    /\ InitLoop({<<>>})
    /\ NoCounts
    /\ audit = <<>>
    /\ seal = [p \in Artifacts |->
                 IF p \in {"memory", "session", "audit"} THEN "sealed"
                 ELSE "missing"]
    /\ NoFile
    /\ NoTrust
    /\ NoRequest
    /\ NoLate

NextImport20 == ImportCommands20 \/ WriteCommands20

SpecImport20 == InitImport20 /\ [][NextImport20]_vars

\* a non-empty document that does not name the owner
Unauthorized(doc) == doc.keys # {} /\ doc.owner # "YZ"

\* C11: importing a non-empty command document whose owner is not the
\* authorized principal leaves the records, the signal state and the
\* inbox file unchanged, yields no set-sleep effect and appends exactly one
\* unauthorized_import entry to the session log.
C11_UnauthorizedIgnored ==
    [][(imports' = imports + 1 /\ Unauthorized(commands)) =>
            /\ store' = store
            /\ recentValence' = recentValence
            /\ sleep_sec' = sleep_sec
            /\ commands' = commands
            /\ seal'["commands"] = seal["commands"]
            /\ effects'.set_sleep = <<>>
            /\ effects'.pushed = 0
            /\ ~effects'.cleared
            /\ session' = Append(session, "unauthorized_import")]_vars

C11_Witness ==
    /\ effects.ignored
    /\ Unauthorized(commands)
    /\ {"set_sleep", "push_memory", "clear_commands"} \subseteq commands.keys
    /\ commands.owner = ""
    /\ Len(session) = 1
    /\ store = <<Seed20>>

(*************************** hash guard specification **********************)
InitGuard ==
    /\ InitStore({<<>>})
    /\ InitAuto
    /\ InitLoop({<<>>})
    /\ NoCounts
    /\ Idle20

NextGuard ==
    \/ WriteAndHash /\ UNCHANGED <<storeVars, autoVars, loopVars, countVars, trustVars, lateVars,
                         mirrorVars>>
    \/ TamperBytes /\ UNCHANGED <<storeVars, autoVars, loopVars, countVars, trustVars, lateVars,
                         mirrorVars>>
    \/ RemoveFile /\ UNCHANGED <<storeVars, autoVars, loopVars, countVars, trustVars, lateVars,
                         mirrorVars>>
    \/ RemoveRecord /\ UNCHANGED <<storeVars, autoVars, loopVars, countVars, trustVars, lateVars,
                         mirrorVars>>
    \/ VerifyHash /\ UNCHANGED <<storeVars, autoVars, loopVars, countVars, trustVars, lateVars,
                         mirrorVars>>
    \/ SecurityVerifyCycle
            /\ UNCHANGED <<storeVars, autoVars, loopVars, countVars, trustVars, lateVars,
                         mirrorVars>>

SpecGuard == InitGuard /\ [][NextGuard]_vars

\* C12: right after _write_and_hash(path, X) the verification reports ok;
\* after the bytes were then changed to any other content without the
\* guard it reports not ok.
C12_SealRoundTrip ==
    verdict # <<>> =>
        /\ verdict[1].after = "write" => verdict[1].ok
        /\ verdict[1].after = "tamper" => ~verdict[1].ok

C12_Witness ==
    /\ verdict # <<>>
    /\ verdict[1].after = "tamper"
    /\ ~verdict[1].ok
    /\ lastFileOp = "tamper"
    /\ sha # <<>>
    /\ file # <<>>
    /\ sha # HashFile(file)

\* C13 as stated: a verification made while the artifact or its .sha
\* record is absent records the status "missing".
C13_AbsenceIsMissing ==
    \A i \in 1..Len(audit) :
        (audit[i].kind = "verify"
            /\ (~audit[i].file_present \/ ~audit[i].record_present))
        => audit[i].status = "missing"

(*************************** 20.0 startup and cycle specification **********)
\* an engine that ran before: its artifacts are on disk with their records
InitEngine20 ==
    /\ InitStore({<<Seed20>>})
    /\ InitAutoFrom({NoCommands20}, NoEffects20)
    /\ session = <<>>
    /\ reflection = <<>>
    /\ pc = "off"
    /\ cycle_error = FALSE
    /\ exported = <<>>
    /\ cycles = 0
    /\ NoCounts
    /\ audit = <<>>
    /\ seal = [p \in Artifacts |->
                 IF p = "commands" THEN "missing" ELSE "sealed"]
    /\ NoFile
    /\ NoTrust
    /\ NoRequest
    /\ NoLate

NextEngine20 ==
    \/ TamperCore
    \/ Startup20
    \/ Reflect20
    \/ HealMemory20
    \/ Evolve20
    \/ Wake20

SpecEngine20 == InitEngine20 /\ [][NextEngine20]_vars

\* C14 as stated: a core artifact changed outside the guard before startup
\* or during the sleep is never read and sealed again before a mismatch
\* has been recorded for it.
C14_NeverSilentlyTrusted == trusted = {}

(*************************** local mirror specification ********************)
\* one export on disk with its record, the audit log sealed
InitMirror ==
    /\ InitStore({<<>>})
    /\ InitAuto
    /\ InitLoop({<<>>})
    /\ NoCounts
    /\ audit = <<>>
    /\ seal = [p \in Artifacts |-> IF p = "audit" THEN "sealed" ELSE "missing"]
    /\ file = <<ExportBytes(<<PayloadMember>>)>>
    /\ sha = HashFile(file)
    /\ verdict = <<>>
    /\ lastFileOp = "none"
    /\ NoTrust
    /\ NoRequest
    /\ NoLate

NextMirror ==
    \/ ExportWriteFile
            /\ UNCHANGED <<storeVars, autoVars, loopVars, countVars, trustVars, lateVars>>
    \/ ExportWriteRecord
            /\ UNCHANGED <<storeVars, autoVars, loopVars, countVars, trustVars, lateVars>>
    \/ TamperSnapshot
            /\ UNCHANGED <<storeVars, autoVars, loopVars, countVars, trustVars, lateVars>>
    \/ RemoveFile
            /\ UNCHANGED <<storeVars, autoVars, loopVars, countVars, trustVars, lateVars,
                           mirrorVars>>
    \/ RemoveRecord
            /\ UNCHANGED <<storeVars, autoVars, loopVars, countVars, trustVars, lateVars,
                           mirrorVars>>
    \/ HandlerRead
            /\ UNCHANGED <<storeVars, autoVars, loopVars, countVars, trustVars, lateVars>>
    \/ HandlerReply
            /\ UNCHANGED <<storeVars, autoVars, loopVars, countVars, trustVars, lateVars>>

SpecMirror == InitMirror /\ [][NextMirror]_vars

\* C15 as stated: a request is answered with the content of the snapshot
\* only if that content matched the .sha record during the request and
\* carries the owner tag "YZ"; every other request is answered with the
\* integrity_or_owner_check_failed error.
C15_ServedOnlyIfChecked ==
    response # <<>> =>
        /\ response[1].kind = "content" =>
                response[1].sealed /\ response[1].owner_ok
        /\ response[1].kind # "content" => response[1].kind = "error"

\* C16 as stated: handling a request writes no persisted artifact, so no
\* event in the audit log comes from the handler.
C16_HandlerWritesNothing ==
    \A i \in 1..Len(audit) : audit[i].kind # "serve"

(*************************** console specification *************************)
InitConsole ==
    /\ InitStore({<<Seed20>>})
    /\ InitAutoFrom({NoCommands20}, NoEffects20)
    /\ session = <<"startup">>
    /\ reflection = <<>>
    /\ pc = "top"
    /\ cycle_error = FALSE
    /\ exported = <<>>
    /\ cycles = 0
    /\ NoCounts
    /\ audit = <<>>
    /\ seal = [p \in Artifacts |->
                 IF p = "commands" THEN "missing" ELSE "sealed"]
    /\ NoFile
    /\ NoTrust
    /\ NoRequest
    /\ NoLate

NextConsole ==
    \/ Enqueue
    \/ SetStop
    \/ TopTest
    \/ Dequeue
    \/ DrainEmpty
    \/ RunPhases20
    \/ SleepCheck
    \/ SleepSlice

SpecConsole == InitConsole /\ [][NextConsole]_vars

\* the fixed number of dequeues per cycle the claim speaks of: any number
\* below the number of lines that can be waiting
DrainLimit == MaxInputs - 1

\* C17 as stated: in every cycle the loop takes at most a fixed number of
\* commands from the inbox before it moves on to the phases.
C17_DrainBounded == drained <= DrainLimit

\* C18: with stop set the loop at the top of a cycle exits without running
\* a phase, no new cycle starts, and a sleep in progress ends after at
\* most one more slice.
C18_CancelWithinOneSlice ==
    [][ /\ (stop /\ pc = "top") => pc' = "exit"
        /\ stop => cycles' = cycles
        /\ afterStop' <= 1 ]_vars

C18_Witness ==
    /\ pc = "exit"
    /\ stop
    /\ afterStop = 1
    /\ slices > 1
    /\ inbox = <<>>
    /\ produced = 0

(*************************** load specification ****************************)
InitLoad ==
    /\ InitStore({<<>>})
    /\ InitAuto
    /\ InitLoop({<<>>})
    /\ NoCounts
    /\ audit = <<>>
    /\ seal = [p \in Artifacts |-> "missing"]
    /\ file \in MemoryFiles
    /\ sha = <<>>
    /\ verdict = <<>>
    /\ lastFileOp = "none"
    /\ NoTrust
    /\ NoRequest
    /\ NoLate

NextLoad == LoadMemory20

SpecLoad == InitLoad /\ [][NextLoad]_vars

\* the file is absent or its bytes are not a JSON object
NotAnObject(f) ==
    \/ f = <<>>
    \/ Len(f[1]) < 2
    \/ f[1][1] # OpenBrace
    \/ f[1][Len(f[1])] # CloseBrace

\* the keys of the object in the file
FileKeys(f) ==
    IF NotAnObject(f) THEN {}
    ELSE {f[1][i] : i \in 2..(Len(f[1]) - 1)}

\* C19: _load_memory never raises; for a file that is missing, unparseable
\* or not an object it returns exactly the three required fields, each
\* with its default; for an object every required field the file lacks is
\* filled with its default and the fields of the file are kept.
C19_LoadFailsSoft ==
    loaded # <<>> =>
        /\ ~loaded[1].raised
        /\ RequiredMembers \subseteq loaded[1].keys
        /\ NotAnObject(file) =>
                /\ loaded[1].keys = RequiredMembers
                /\ loaded[1].defaulted = RequiredMembers
        /\ loaded[1].defaulted = RequiredMembers \ FileKeys(file)
        /\ loaded[1].kept = FileKeys(file)

C19_Witness ==
    /\ loaded # <<>>
    /\ file = <<<<OpenBracket, CoreMember, CloseBracket>>>>
    /\ loaded[1].defaulted = RequiredMembers
    /\ loaded[1].kept = {}

(*************************** save specification ****************************)
InitSave ==
    /\ InitStore({<<>>})
    /\ InitAuto
    /\ InitLoop({<<>>})
    /\ NoCounts
    /\ audit = <<>>
    /\ seal = [p \in Artifacts |-> "missing"]
    /\ file \in {<<>>} \cup {<<d>> : d \in SavedDocs}
    /\ sha = <<>>
    /\ verdict = <<>>
    /\ lastFileOp = "none"
    /\ NoTrust
    /\ NoRequest
    /\ NoConsole
    /\ NoMore
    /\ tmpfile = <<>>
    /\ pending = <<>>
    /\ wstep = "idle"
    /\ committed = file
    /\ loaded = <<>>

NextSave ==
    \/ BeginWrite
    \/ WriteChunk
    \/ CloseTmp
    \/ ReplaceFile
    \/ Crash
    \/ Restart

SpecSave == InitSave /\ [][NextSave]_vars

\* C20: at every step of a write, and after a crash at any of them, the
\* file holds the complete previous content or the complete new content.
C20_SaveCrashAtomic ==
    \/ file = committed
    \/ pending # <<>> /\ file = <<pending[1].doc>>

C20_Witness ==
    /\ wstep = "crashed"
    /\ tmpfile # <<>>
    /\ pending[1].at > 0
    /\ pending[1].at < Len(pending[1].doc)
    /\ file # <<>>
    /\ file = committed

(*************************** unknown keys specification ********************)
InitSchema ==
    /\ InitStore({<<>>})
    /\ InitAuto
    /\ InitLoop({<<>>})
    /\ NoCounts
    /\ audit = <<>>
    /\ seal = [p \in Artifacts |-> "missing"]
    /\ NoFile
    /\ NoTrust
    /\ NoRequest
    /\ NoConsole
    /\ NoDisk
    /\ diskdoc \in StoreDocs
    /\ memdata = <<>>
    /\ \E engine \in {"7.0", "8.5", "14.0"} :
            orig = [engine |-> engine, doc |-> diskdoc]
    /\ loads = 0
    /\ lread = <<>>
    /\ hread = <<>>
    /\ appended = <<>>
    /\ NoShape
    /\ NoSample

NextSchema ==
    \/ LoadDocument
            /\ UNCHANGED <<storeVars, autoVars, loopVars, countVars, guardVars,
                           sealVars, trustVars, mirrorVars, consoleVars,
                           diskVars, appendVars, shapeVars, emotionVars>>
    \/ SaveDocument
            /\ UNCHANGED <<storeVars, autoVars, loopVars, countVars, guardVars,
                           sealVars, trustVars, mirrorVars, consoleVars,
                           diskVars, appendVars, shapeVars, emotionVars>>

SpecSchema == InitSchema /\ [][NextSchema]_vars

\* C21 as stated: after a load, and after a save and another load, every
\* top-level key of the document that the schema does not know is in the
\* extras bucket with the value it had in the document.
C21_UnknownKeysQuarantined ==
    (memdata # <<>> /\ orig.doc.kind = "object") =>
        \A k \in UnknownKeys :
            orig.doc.top[k] # 0 =>
                /\ ~memdata[1].raised
                /\ memdata[1].extras.kind = "object"
                /\ memdata[1].extras.map[k] = orig.doc.top[k]

(*************************** ranking specification *************************)
\* one recall, of 14.0 or of 20.0, on any store Heal has left
InitRecall ==
    /\ store \in HealedStores
    /\ prev = <<>>
    /\ origin = <<>>
    /\ uuidCount = 0
    /\ now = 1
    /\ lastOp = "heal"
    /\ healStreak = 1
    /\ pulse = NoPulse
    /\ prevPulse = NoPulse
    /\ recentValence \in {0 - 250, 200}
    /\ recalled = <<>>
    /\ evolves = 0
    /\ changed = 0
    /\ InitAuto /\ InitLoop({<<>>}) /\ NoCounts /\ Idle20

NextRecall ==
    \/ Recall14 /\ UNCHANGED <<autoVars, loopVars, countVars, engine20Vars>>
    \/ Recall20 /\ UNCHANGED <<autoVars, loopVars, countVars, engine20Vars>>

SpecRecall == InitRecall /\ [][NextRecall]_vars

\* eff of the effective-score ranking, in units of 1e-6
Eff(r, rv) ==
    1000 * (r.score - r.penalty)
        + (IF r.health = "ok" THEN 20000
           ELSE IF r.health = "healed" THEN 0 ELSE 0 - 50000)
        + 30 * r.affect.valence
        + 40 * (1000 - 2 * Abs(550 - Clip(r.affect.arousal, 0, 1000)))
        + (r.affect.valence * rv) \div 50

\* (eff, last_seen) of a is >= that of b
KeyAtLeast(a, b, rv) ==
    \/ Eff(a, rv) > Eff(b, rv)
    \/ Eff(a, rv) = Eff(b, rv) /\ a.last_seen >= b.last_seen

\* the records returned are the first ones by (eff, last_seen)
TopByEff ==
    /\ \E limit \in RankLimits :
            Len(recalled) = Min(Len(store), Max(1, limit))
    /\ \A i \in 1..Len(recalled) : \E j \in 1..Len(store) :
            recalled[i] = store[j]
    /\ \A i, j \in 1..Len(recalled) : recalled[i].id = recalled[j].id => i = j
    /\ \A i \in 1..Len(recalled) : \A j \in 1..Len(store) :
            store[j].id \notin StoreIds(recalled)
                => KeyAtLeast(recalled[i], store[j], recentValence)
    /\ \A i \in 1..Len(recalled) - 1 :
            KeyAtLeast(recalled[i], recalled[i + 1], recentValence)

\* C22: on a non-empty store Recall returns min(n, max(1, limit)) records,
\* and the key (eff, last_seen) of every record returned is at least the
\* key of every record not returned, the more recent first among equal eff
C22_RecallTopK ==
    (lastOp \in {"recall", "recall20"} /\ store # <<>>) => TopByEff

\* the same for the recall of 14.0 alone
Recall14TopByEff == (lastOp = "recall" /\ store # <<>>) => TopByEff

(*************************** properties of Evolve **************************)
\* C23: Evolve leaves every field of a record whose id was not recalled as
\* it was, and the count it reports is the number of stored records whose
\* id was recalled
C23_OnlyRecalledReinforced ==
    [][lastOp' = "evolve" =>
        /\ Len(store') = Len(store)
        /\ \A i \in 1..Len(store) :
                store[i].id \notin {recalled[j].id : j \in 1..Len(recalled)}
                    => store'[i] = store[i]
        /\ changed' = Cardinality({i \in 1..Len(store) :
                store[i].id \in {recalled[j].id : j \in 1..Len(recalled)}})
      ]_vars

\* an Evolve that has reinforced one record and passed over another
C23_Witness ==
    /\ lastOp = "evolve"
    /\ changed = 1
    /\ Len(store) = 2
    /\ \E i \in 1..2 : store[i].id \notin {recalled[j].id : j \in 1..Len(recalled)}

\* C27: for every recalled record Evolve adds 0.1 to the score, sets the
\* penalty to max(0, penalty - 0.02), never below 0 afterwards, and makes
\* the health ok exactly when it was healed or anomalous and the penalty
\* after the decay is 0; a record that is ok stays ok
C27_Reinforcement ==
    [][lastOp' = "evolve" =>
        \A i \in 1..Len(store) :
            store[i].id \in {recalled[j].id : j \in 1..Len(recalled)} =>
                /\ store'[i].score = store[i].score + 100
                /\ store'[i].penalty = Max(0, store[i].penalty - 20)
                /\ store'[i].penalty >= 0
                /\ store[i].health = "ok" => store'[i].health = "ok"
                /\ store[i].health # "ok" =>
                    (store'[i].health = "ok" <=> store'[i].penalty = 0)
      ]_vars

(*************************** pruning specification *************************)
\* autonomy_controller on healed stores at and above the ceiling
InitPrune ==
    /\ store \in PruneStores
    /\ prev = <<>>
    /\ origin = <<>>
    /\ uuidCount = 0
    /\ now = PruneTime
    /\ lastOp = "evolve"
    /\ healStreak = 0
    /\ pulse = NoPulse
    /\ prevPulse = NoPulse
    /\ recentValence = 200
    /\ recalled = <<>>
    /\ evolves = 0
    /\ changed = 0
    /\ InitAuto /\ InitLoop({<<>>}) /\ NoCounts /\ Idle20

NextPrune == AutonomyPrune /\ UNCHANGED <<loopVars, countVars, engine20Vars>>

SpecPrune == InitPrune /\ [][NextPrune]_vars

\* last_seen is older than the 7-day cutoff
Stale(r) == r.last_seen < now - 7 * SecondsPerDay

\* score < 0.05 and penalty > 0.2, or anomalous
Weak(r) == (r.score < 50 /\ r.penalty > 200) \/ r.health = "anomalous"

\* the controller has run a prune in this step
PruneRan == adjusts' = adjusts + 1 /\ returned'[1].prune.kept > 0

Removed(i) == \A j \in 1..Len(store') : store'[j].id # store[i].id

Ineligible == {i \in 1..Len(store) : ~(Stale(store[i]) /\ Weak(store[i]))}

\* C24 as stated: every record a prune removes is stale and weak, also
\* when the floor rule is applied
C24_OnlyEligibleRemoved ==
    [][PruneRan =>
        \A i \in 1..Len(store) :
            Removed(i) => Stale(store[i]) /\ Weak(store[i])]_vars

\* C24 amended: every record removed by a prune that leaves at least the
\* floor of records without the floor rule is stale and weak
C24_OnlyEligibleRemovedAboveFloor ==
    [][(PruneRan /\ Cardinality(Ineligible) >= PruneFloor) =>
        /\ \A i \in 1..Len(store) :
                Removed(i) => Stale(store[i]) /\ Weak(store[i])
        /\ \A i \in Ineligible : ~Removed(i)]_vars

\* a prune has removed a record and kept more than the floor
C24_Witness ==
    /\ last_prune # <<>>
    /\ last_prune[1].pruned >= 1
    /\ last_prune[1].kept > PruneFloor
    /\ Len(store) = last_prune[1].kept

\* C25: after a prune the store holds at least the floor of records; when
\* fewer records than the floor were ineligible, the survivors are the
\* floor's number of records with the highest scores
C25_FloorKept ==
    [][PruneRan =>
        /\ Len(store) > PruneCeiling
        /\ Len(store') >= PruneFloor
        /\ \A j \in 1..Len(store') : \E i \in 1..Len(store) :
                store'[j] = store[i]
        /\ Cardinality(Ineligible) < PruneFloor =>
            /\ Len(store') = PruneFloor
            /\ \A i \in 1..Len(store) : \A j \in 1..Len(store') :
                    Removed(i) => store'[j].score >= store[i].score]_vars

\* the floor rule has kept a stale anomalous record
C25_Witness ==
    /\ last_prune # <<>>
    /\ last_prune[1].kept = PruneFloor
    /\ Len(store) = PruneFloor
    /\ \E j \in 1..Len(store) : Stale(store[j]) /\ Weak(store[j])

(*************************** properties of the cycle ************************)
\* C26: the phases of a cycle run in the order Import, Reflect, Heal,
\* Recall, Evolve, Autonomy-adjust, Export, Verify, Sleep, and the sleep
\* that follows uses the sleep_sec this cycle's Autonomy-adjust produced;
\* here for the loop of 20.0: when the sleep is set up, autonomy_controller
\* has returned and the sleep lasts what it returned
C26_SleepUsesAdjusted ==
    pc = "sleep" =>
        /\ returned # <<>>
        /\ slices <= SlicesOf(returned[1].sleep_sec)

\* the loop of 14.0: the phases it has follow each other in the claimed
\* order, a phase that raises leads to the adjustment, Recall reads the
\* store a completed Heal has left, Evolve is applied to what this Recall
\* returned, and the sleep follows an adjustment whose sleep_sec is the
\* stored one
Loop14PhaseOrder ==
    [][/\ pc' # pc =>
            <<pc, pc'>> \in
                {<<"import", "reflect">>, <<"reflect", "heal">>,
                 <<"heal", "recall">>, <<"recall", "evolve">>,
                 <<"evolve", "adjust">>, <<"adjust", "export">>,
                 <<"export", "sleep">>, <<"sleep", "import">>,
                 <<"import", "adjust">>, <<"reflect", "adjust">>,
                 <<"heal", "adjust">>, <<"export", "crashed">>}
                \cup {<<p, "stopped">> : p \in {"import", "reflect", "heal",
                        "recall", "evolve", "adjust", "export", "sleep"}}
       /\ pc' = "evolve" => lastOp = "heal" /\ lastOp' = "recall"
       /\ (pc = "evolve" /\ pc' = "adjust") =>
            /\ lastOp = "recall"
            /\ changed' = Cardinality({i \in 1..Len(store) :
                    store[i].id \in {recalled[j].id : j \in 1..Len(recalled)}})
       /\ pc' = "sleep" =>
            /\ returned # <<>>
            /\ returned[1].sleep_sec = sleep_sec
            /\ exported'[1].sleep_sec = sleep_sec
      ]_vars

(*************************** adjustment specification **********************)
\* autonomy_controller on any stored sleep_sec with any inputs
InitAdjust ==
    /\ InitStore({SeedStore})
    /\ sleep_sec \in StoredSleeps
    /\ rolling_ms = <<>>
    /\ rolling_errors = <<>>
    /\ last_prune = <<>>
    /\ returned = <<>>
    /\ commands = NoCommands
    /\ effects = NoEffects
    /\ adjusts = 0
    /\ imports = 0
    /\ InitLoop({<<>>}) /\ NoCounts /\ Idle20

NextAdjust == AdjustAtEdges /\ UNCHANGED <<loopVars, countVars, engine20Vars>>

SpecAdjust == InitAdjust /\ [][NextAdjust]_vars

Clamped(s) == IF s < 2000 THEN 2000 ELSE IF s > 15000 THEN 15000 ELSE s

\* round(s, 2) of a positive value in thousandths that is not a tie
Rounded2(s) == 10 * ((s + 5) \div 10)

\* the three steps with step(s, d) as the result of adding d to s
Stepped(step(_, _), s, last_ms, had_error, recalled_count, resilience) ==
    LET s1 == IF last_ms < 400 /\ resilience >= 900 /\ recalled_count >= 1
              THEN step(s, 0 - 500) ELSE s
        s2 == IF last_ms > 1200 \/ resilience < 600
              THEN step(s1, 500) ELSE s1
    IN  IF had_error THEN step(s2, 3000) ELSE s2

ExactStep(s, d) == Clamped(s + d)
RoundedStep(s, d) == Clamped(Rounded2(s + d))

\* the controller has been called with these inputs in this step
CalledWith(last_ms, had_error, recalled_count, resilience) ==
    /\ adjusts' = adjusts + 1
    /\ AdjustWith(last_ms, had_error, recalled_count, resilience)

\* C28 as stated: one call changes sleep_sec by -0.5, +0.5 and +3.0 under
\* the stated conditions, each step clamped to [2.0, 15.0], and not at all
\* when no condition holds
C28_ExactSteps ==
    [][\A last_ms \in EdgeLatencies, had_error \in BOOLEAN,
          recalled_count \in EdgeCounts, resilience \in EdgeResiliences :
            CalledWith(last_ms, had_error, recalled_count, resilience) =>
                sleep_sec' = Stepped(ExactStep, sleep_sec, last_ms, had_error,
                                     recalled_count, resilience)]_vars

\* C28 amended: the same, each step rounded to two decimals before it is
\* clamped
C28_RoundedSteps ==
    [][\A last_ms \in EdgeLatencies, had_error \in BOOLEAN,
          recalled_count \in EdgeCounts, resilience \in EdgeResiliences :
            CalledWith(last_ms, had_error, recalled_count, resilience) =>
                /\ sleep_sec' = Stepped(RoundedStep, sleep_sec, last_ms,
                                        had_error, recalled_count, resilience)
                /\ returned'[1].sleep_sec = sleep_sec'
                /\ (~had_error /\ ~(last_ms > 1200 \/ resilience < 600)
                      /\ ~(last_ms < 400 /\ resilience >= 900
                             /\ recalled_count >= 1))
                        => sleep_sec' = sleep_sec]_vars

\* a slow-down and a backoff from a stored 2.254 have given 5.75, and a
\* call at the thresholds (400 ms, resilience 0.6) has changed nothing
C28_Witness ==
    /\ Len(rolling_ms) = 2
    /\ rolling_ms[1] = 2000 /\ rolling_errors[1] = 1
    /\ rolling_ms[2] = 400 /\ rolling_errors[2] = 0
    /\ sleep_sec = 5750

(*************************** properties of the id dedup ********************)
\* id, health and penalty of a raw entry after normalization; id 0 when
\* normalization issues one
NormId(it) == IF Good(it, "id") /\ it.id # 0 THEN it.id ELSE 0
NormHealth(it) ==
    IF Good(it, "health") /\ it.health \in {"ok", "healed", "anomalous"}
    THEN it.health ELSE "ok"
NormPenalty(it) == IF Good(it, "penalty") THEN it.penalty ELSE 0

\* the id of kept record k was the id of a record kept before it
Collides(k) ==
    /\ NormId(prev[origin[k]]) # 0
    /\ \E m \in Kept : m < k /\ store[m].id = NormId(prev[origin[k]])

\* kept record k is the first with an id a later kept record came with
FirstWithId(k) ==
    /\ ~Collides(k)
    /\ \E m \in Kept : /\ m > k
                       /\ Collides(m)
                       /\ NormId(prev[origin[m]]) = store[k].id

FreshId(k) == store[k].id < 0 /\ \A m \in Kept : m # k => store[m].id # store[k].id

\* C29 as stated: a record whose id collides with a kept one is retained
\* with a fresh id, health healed and penalty max(previous, 0.15); the
\* first record with that id keeps its id, health and penalty
C29_IdDedupKeepsHealed ==
    HealDone =>
        \A k \in Kept :
            /\ Collides(k) =>
                /\ FreshId(k)
                /\ store[k].health = "healed"
                /\ store[k].penalty = Max(NormPenalty(prev[origin[k]]), 150)
            /\ FirstWithId(k) =>
                /\ store[k].id = NormId(prev[origin[k]])
                /\ store[k].health = NormHealth(prev[origin[k]])
                /\ store[k].penalty = NormPenalty(prev[origin[k]])

\* C29 amended: the same for records whose content is not empty; with an
\* empty content the record is anomalous, with penalty max(previous, 0.2)
C29_IdDedupKeeps ==
    HealDone =>
        \A k \in Kept :
            /\ Collides(k) =>
                /\ FreshId(k)
                /\ store[k].health =
                        IF store[k].content = "" THEN "anomalous" ELSE "healed"
                /\ store[k].penalty =
                        Max(NormPenalty(prev[origin[k]]),
                            IF store[k].content = "" THEN 200 ELSE 150)
            /\ FirstWithId(k) =>
                /\ store[k].id = NormId(prev[origin[k]])
                /\ store[k].health =
                        IF store[k].content = "" THEN "anomalous"
                        ELSE NormHealth(prev[origin[k]])
                /\ store[k].penalty =
                        IF store[k].content = ""
                        THEN Max(NormPenalty(prev[origin[k]]), 200)
                        ELSE NormPenalty(prev[origin[k]])

\* two records came with the id of the first: one keeps its penalty of 0.4,
\* the other gets 0.15
C29_Witness ==
    /\ HealDone
    /\ Len(store) = 3
    /\ FirstWithId(1) /\ store[1].id = 1 /\ store[1].health = "ok"
    /\ \E k \in Kept : Collides(k) /\ store[k].penalty = 400
    /\ \E k \in Kept : Collides(k) /\ store[k].penalty = 150

(*************************** audit log specification ***********************)
\* the loop and the request handler appending to the audit log
InitAppend ==
    /\ InitStore({<<>>})
    /\ InitAuto
    /\ InitLoop({<<>>})
    /\ NoCounts
    /\ audit = <<>>
    /\ seal = [p \in Artifacts |-> "missing"]
    /\ NoFile
    /\ NoTrust
    /\ NoRequest
    /\ NoConsole
    /\ NoDisk
    /\ NoMore

NextAppend ==
    \/ LoopAuditRead
            /\ UNCHANGED <<storeVars, autoVars, loopVars, countVars, sealVars,
                           trustVars, mirrorVars, consoleVars, diskVars,
                           schemaVars, shapeVars, emotionVars>>
    \/ LoopAuditWrite
            /\ UNCHANGED <<storeVars, autoVars, loopVars, countVars, sealVars,
                           trustVars, mirrorVars, consoleVars, diskVars,
                           schemaVars, shapeVars, emotionVars>>
    \/ HandlerAuditRead
            /\ UNCHANGED <<storeVars, autoVars, loopVars, countVars, sealVars,
                           trustVars, mirrorVars, consoleVars, diskVars,
                           schemaVars, shapeVars, emotionVars>>
    \/ HandlerAuditWrite
            /\ UNCHANGED <<storeVars, autoVars, loopVars, countVars, sealVars,
                           trustVars, mirrorVars, consoleVars, diskVars,
                           schemaVars, shapeVars, emotionVars>>

SpecAppend == InitAppend /\ [][NextAppend]_vars

\* C30: under every interleaving of the loop and the request handler every
\* event that was appended to the audit log is still in the log, in append
\* order
C30_AppendOnly == audit = appended

(*************************** properties of the tags ************************)
\* C31: after a Heal pass no record's tags hold the same string twice, and
\* no two records have equal content and tags that are equal as sets
C31_TagsAreSets ==
    HealDone =>
        /\ \A k \in Kept : \A a, b \in 1..Len(store[k].tags) :
                store[k].tags[a] = store[k].tags[b] => a = b
        /\ \A i, j \in Kept :
                (/\ store[i].content = store[j].content
                 /\ Range(store[i].tags) = Range(store[j].tags)) => i = j

(*************************** properties of the imports *********************)
\* the import step has applied a document with a push_memory command
PushStep == imports' = imports + 1 /\ "push_memory" \in commands.keys

\* the pushed item has a content that is not empty
PushedContent ==
    /\ commands.push_memory.dict
    /\ "content" \notin commands.push_memory.absent
    /\ commands.push_memory.content \notin {"", "#0"}

\* what a push does to the store and reports
PushesOne ==
    IF PushedContent
    THEN /\ Len(store') = Len(store) + 1
         /\ SubSeq(store', 1, Len(store)) = store
         /\ store'[Len(store')].content # ""
         /\ effects'.pushed = 1
    ELSE /\ store' = store
         /\ effects'.pushed = 0

\* C32: a push-one-record command with empty or absent content leaves the
\* store unchanged and reports pushed = 0; with a content that is not empty
\* one normalized record is appended at the end and the existing records
\* are unchanged
C32_PushAppendsOne == [][PushStep => PushesOne]_vars

\* the same for the import of 20.0 and documents of the owner
Import20PushesOne ==
    [][(PushStep /\ commands.owner = OwnerId) => PushesOne]_vars

(*************************** document shape specification *******************)
InitShape ==
    /\ InitStore({<<>>})
    /\ InitAuto
    /\ InitLoop({<<>>})
    /\ NoCounts
    /\ audit = <<>>
    /\ seal = [p \in Artifacts |-> "missing"]
    /\ NoFile
    /\ NoTrust
    /\ NoRequest
    /\ NoConsole
    /\ NoDisk
    /\ diskdoc = NoDocument
    /\ memdata = <<>>
    /\ orig = [engine |-> "", doc |-> NoDocument]
    /\ loads = 0
    /\ lread = <<>>
    /\ hread = <<>>
    /\ appended = <<>>
    /\ NoSample
    /\ memshape \in MemoryShapes
    /\ step20 = "import"
    /\ failed20 = 0
    /\ passed20 = 0

ShapeFrame ==
    UNCHANGED <<storeVars, autoVars, loopVars, countVars, guardVars, sealVars,
                trustVars, mirrorVars, consoleVars, diskVars, schemaVars,
                appendVars, emotionVars>>

NextShape ==
    \/ ShapeImport /\ ShapeFrame
    \/ ShapeReflect /\ ShapeFrame
    \/ ShapeAffect /\ ShapeFrame
    \/ ShapeHeal /\ ShapeFrame
    \/ ShapeRecall /\ ShapeFrame
    \/ ShapeEvolve /\ ShapeFrame

SpecShape == InitShape /\ [][NextShape]_vars

(*************************** properties of a bad store document *************)
SchemaValid ==
    /\ memshape.meta \in {"absent", "object"}
    /\ memshape.core \in {"absent", "list"}
    /\ memshape.signals \in {"absent", "object"}

\* C33: a store document with a top-level field of the wrong shape makes at
\* most one cycle fail, and after a failed cycle the document is back in a
\* schema-valid shape
C33_OneFailedCycle ==
    /\ failed20 <= 1
    /\ (failed20 = 1 /\ step20 = "import") => SchemaValid

\* a core_memories of the wrong shape alone fails no cycle without a push,
\* and the first Heal puts a list in its place
CoreShapeRepaired ==
    (/\ memshape.meta \in {"absent", "object"}
     /\ memshape.signals \in {"absent", "object"}
     /\ step20 \in {"recall", "evolve"}) => memshape.core = "list"

(*************************** emotion specification **************************)
InitEmotion ==
    /\ InitStore({<<>>})
    /\ InitAuto
    /\ InitLoop({<<>>})
    /\ NoCounts
    /\ audit = <<>>
    /\ seal = [p \in Artifacts |-> "missing"]
    /\ NoFile
    /\ NoTrust
    /\ NoRequest
    /\ NoConsole
    /\ NoDisk
    /\ diskdoc = NoDocument
    /\ memdata = <<>>
    /\ orig = [engine |-> "", doc |-> NoDocument]
    /\ loads = 0
    /\ lread = <<>>
    /\ hread = <<>>
    /\ appended = <<>>
    /\ NoShape
    /\ sample \in Samples
    /\ analysed = <<>>

NextEmotion ==
    Analyze /\ UNCHANGED <<storeVars, autoVars, loopVars, countVars,
                           guardVars, sealVars, trustVars, mirrorVars,
                           consoleVars, diskVars, schemaVars, appendVars,
                           shapeVars>>

SpecEmotion == InitEmotion /\ [][NextEmotion]_vars

(*************************** properties of analyze_emotion ******************)
\* the keywords of a set that occur in the text, whatever its case
Hits(words) == {w \in words : Contains(w, Lower(sample.chars))}

NonEmptyText == sample.text /\ sample.chars # <<>>

LabelsOf(result) == Range(result.labels)

\* C34: for a non-empty text with p, n, h, l distinct keywords of the four
\* sets matched, analyze_emotion returns valence clip(0.2p - 0.25n, -1, 1)
\* and arousal clip(0.2 + 0.15h - 0.1l, 0, 1), a set's label is present
\* exactly when the set has a hit, and an empty text or a value that is no
\* text gives (0.0, 0.2, no labels)
C34_AnalyzeByHits ==
    analysed # <<>> =>
        LET result == analysed[1]
            p == Cardinality(Hits(POSITIVE))
            n == Cardinality(Hits(NEGATIVE))
            h == Cardinality(Hits(HIGH_AROUSAL))
            l == Cardinality(Hits(LOW_AROUSAL))
        IN  IF NonEmptyText
            THEN /\ result.valence = Max(0 - 1000, Min(1000, 200 * p - 250 * n))
                 /\ result.arousal = Max(0, Min(1000, 200 + 150 * h - 100 * l))
                 /\ ("positive" \in LabelsOf(result)) = (p >= 1)
                 /\ ("negative" \in LabelsOf(result)) = (n >= 1)
                 /\ ("high_arousal" \in LabelsOf(result)) = (h >= 1)
                 /\ ("low_arousal" \in LabelsOf(result)) = (l >= 1)
                 /\ LabelsOf(result) \subseteq
                        {"positive", "negative", "high_arousal", "low_arousal"}
            ELSE result = [valence |-> 0, arousal |-> 200, labels |-> <<>>]

\* a text where a keyword occurs twice has been analysed and counted once
C34_Witness ==
    /\ analysed # <<>>
    /\ NonEmptyText
    /\ \E w \in POSITIVE : Occurrences(w, Lower(sample.chars)) >= 2
    /\ Cardinality(Hits(POSITIVE)) >= 1
    /\ analysed[1].valence = 200

\* the values are clipped at the upper end
ClippedAbove ==
    /\ analysed # <<>>
    /\ Cardinality(Hits(POSITIVE)) >= 6
    /\ Cardinality(Hits(HIGH_AROUSAL)) >= 6
    /\ analysed[1].valence = 1000
    /\ analysed[1].arousal = 1000

\* the values are clipped at the lower end
ClippedBelow ==
    /\ analysed # <<>>
    /\ Cardinality(Hits(NEGATIVE)) >= 5
    /\ Cardinality(Hits(LOW_AROUSAL)) >= 3
    /\ analysed[1].valence = 0 - 1000
    /\ analysed[1].arousal = 0

(*************************** health specification ***************************)
\* heal_memory on persisted lists that also hold records without a valid
\* health
InitLabel ==
    InitStore(LabelStores(MaxCycleLen)) /\ InitAuto /\ InitLoop({<<>>})
        /\ NoCounts /\ Idle20

NextLabel ==
    \/ Heal /\ UNCHANGED <<autoVars, loopVars, countVars, engine20Vars>>
    \/ Tick /\ UNCHANGED <<autoVars, loopVars, countVars, engine20Vars>>

SpecLabel == InitLabel /\ [][NextLabel]_vars

(*************************** properties of the health after Heal ************)
\* the health entry i of the input came with: "" when it had none of the
\* three values
HealthBefore(i) ==
    IF prev[i].dict /\ Good(prev[i], "health")
            /\ prev[i].health \in HealthValues
    THEN prev[i].health ELSE ""

OkBefore == {i \in Input : HealthBefore(i) = "ok"}
OkAfter == {k \in Kept : store[k].health = "ok"}

NoPromotion ==
    \A k \in Kept :
        HealthBefore(origin[k]) \in {"healed", "anomalous"}
            => store[k].health # "ok"

\* C35: a record that was healed or anomalous before a Heal pass is not ok
\* after it, and a Heal pass never increases the number of ok records
C35_HealNeverPromotes ==
    HealDone =>
        /\ NoPromotion
        /\ Cardinality(OkAfter) <= Cardinality(OkBefore)

\* C35 as the code has it: a record that was healed or anomalous before a
\* Heal pass is not ok after it, and a record that is ok after the pass was
\* ok before it or came without a valid health
C35_HealPromotesUnlabelledOnly ==
    HealDone =>
        /\ NoPromotion
        /\ \A k \in Kept :
                store[k].health = "ok" => HealthBefore(origin[k]) \in {"ok", ""}
        /\ Cardinality(OkAfter)
                <= Cardinality({i \in Input : HealthBefore(i) \in {"ok", ""}})

\* a Heal pass kept a healed record as healed and made a record without a
\* valid health ok
C35_Witness ==
    /\ HealDone
    /\ \E k \in Kept : /\ HealthBefore(origin[k]) = "healed"
                       /\ store[k].health = "healed"
    /\ \E k \in Kept : /\ HealthBefore(origin[k]) = ""
                       /\ store[k].health = "ok"

(*************************** empty content specification ********************)
\* entries with empty content, or content that normalizes to it, among others
EmptyEntries ==
    { NonDict,
      Rec(1, "", <<>>, 0, "ok"),
      Rec(2, "", <<1>>, 0 - 500, "anomalous"),
      Rec(2, "", <<2>>, 10, "healed"),
      [Rec(0, "#0", <<1>>, 5000, "bogus") EXCEPT !.absent = {"id", "affect"}],
      Rec(1, "x", <<1, 2>>, 0, "ok") }

EmptyStores == UNION {[1..n -> EmptyEntries] : n \in 0..MaxCycleLen}

\* the Heal -> Recall -> Evolve phases on lists with empty-content entries
InitEmpty ==
    InitStore(EmptyStores) /\ InitAuto /\ InitLoop({<<>>})
        /\ NoCounts /\ Idle20

NextEmpty ==
    \/ Heal /\ UNCHANGED <<autoVars, loopVars, countVars, engine20Vars>>
    \/ Recall /\ UNCHANGED <<autoVars, loopVars, countVars, engine20Vars>>
    \/ Evolve /\ UNCHANGED <<autoVars, loopVars, countVars, engine20Vars>>
    \/ Tick /\ UNCHANGED <<autoVars, loopVars, countVars, engine20Vars>>

SpecEmpty == InitEmpty /\ [][NextEmpty]_vars

(*************************** properties of empty-content records ************)
InCycle == lastOp \in {"heal", "recall", "evolve"}

EmptyKept == {k \in Kept : store[k].content = ""}

\* C36: right after a Heal pass every record with empty content is anomalous
\* with penalty >= 0.2; through the Recall and Evolve that follow its penalty
\* stays above 0 and it stays anomalous, and no resilience value counts it
\* as ok
C36_EmptyNeverHeals ==
    /\ HealDone =>
            /\ \A k \in EmptyKept : /\ store[k].health = "anomalous"
                                    /\ store[k].penalty >= 200
            /\ pulse.post_health.ok
                    = Cardinality({k \in Kept \ EmptyKept :
                                        store[k].health = "ok"})
            /\ pulse.post_health.resilience
                    = Resilience(Cardinality({k \in Kept \ EmptyKept :
                                                store[k].health = "ok"}),
                                 Len(store))
    /\ InCycle =>
            \A k \in EmptyKept : /\ store[k].health = "anomalous"
                                 /\ store[k].penalty >= 180

\* an empty-content record was recalled and reinforced, and is still
\* anomalous with its penalty one step under the floor
C36_Witness ==
    /\ lastOp = "evolve"
    /\ \E k \in EmptyKept : /\ store[k].id \in StoreIds(recalled)
                            /\ store[k].penalty = 180
                            /\ store[k].health = "anomalous"
                            /\ store[k].score > 0

(*************************** reinforcement specification ********************)
\* healed records that rank close to each other:
\* [content, score, penalty, health, valence, arousal]
CloseProfiles ==
    { [content |-> "x", score |-> 300, penalty |-> 0, health |-> "ok",
       valence |-> 0 - 1000, arousal |-> 550],
      [content |-> "x", score |-> 300, penalty |-> 0, health |-> "ok",
       valence |-> 1000, arousal |-> 550],
      [content |-> "", score |-> 420, penalty |-> 200, health |-> "anomalous",
       valence |-> 900, arousal |-> 550],
      [content |-> "x", score |-> 320, penalty |-> 20, health |-> "healed",
       valence |-> 0, arousal |-> 300] }

CloseRecord(id, p) ==
    [Rec(id, p.content, <<id>>, p.penalty, p.health) EXCEPT
        !.score = p.score,
        !.affect = [BaseAffect EXCEPT !.valence = p.valence,
                                      !.arousal = p.arousal]]

\* stores with more records than the limit; ids and signatures differ
CloseStores ==
    UNION {{[i \in 1..n |-> CloseRecord(i, ps[i])] :
                ps \in [1..n -> CloseProfiles]} :
            n \in (TopLimit + 1)..MaxKept}

\* the valences reflect_on_session can leave in recent_affect
RecentValences == {0 - 1000, 200, 1000}

\* reflect_on_session(): the phase before Heal
ReflectSignal ==
    /\ lastOp \in {"init", "evolve"}
    /\ \E v \in RecentValences : recentValence' = v
    /\ lastOp' = "reflect"
    /\ UNCHANGED <<store, prev, origin, uuidCount, now, healStreak, pulse,
                   prevPulse, recalled, evolves, changed>>

\* recall_core_memories(limit) with the one limit of the run
RecallTop ==
    /\ lastOp = "heal"
    /\ recalled' = RecallOf(store, TopLimit, recentValence)
    /\ lastOp' = "recall"
    /\ UNCHANGED <<store, prev, origin, uuidCount, now, healStreak, pulse,
                   prevPulse, recentValence, evolves, changed>>

InitReinforce ==
    InitStore(CloseStores) /\ InitAuto /\ InitLoop({<<>>}) /\ NoCounts
        /\ Idle20

NextReinforce ==
    \/ ReflectSignal
            /\ UNCHANGED <<autoVars, loopVars, countVars, engine20Vars>>
    \/ lastOp = "reflect" /\ Heal
            /\ UNCHANGED <<autoVars, loopVars, countVars, engine20Vars>>
    \/ RecallTop
            /\ UNCHANGED <<autoVars, loopVars, countVars, engine20Vars>>
    \/ Evolve
            /\ UNCHANGED <<autoVars, loopVars, countVars, engine20Vars>>
    \/ Tick
            /\ UNCHANGED <<autoVars, loopVars, countVars, engine20Vars>>

SpecReinforce == InitReinforce /\ [][NextReinforce]_vars

(*************************** properties of repeated recalls *****************)
\* a Recall of a cycle that is not the first of the run
LaterRecall == lastOp = "heal" /\ lastOp' = "recall" /\ evolves >= 1

\* C37: with more records than the limit, no imports and no pruning, the
\* Recall of a cycle returns the records the Recall of the cycle before
\* returned, so a recalled record is recalled in every later cycle and one
\* that was not recalled never is; Evolve raises no score but theirs
C37_RecallSelfReinforcing ==
    [][/\ (LaterRecall /\ Len(recalled) < Len(store))
            => StoreIds(recalled') = StoreIds(recalled)
       /\ lastOp' = "evolve"
            => \A k \in 1..Len(store) :
                    store[k].id \notin StoreIds(recalled)
                        => store'[k].score = store[k].score]_vars

\* a second cycle has recalled from a store larger than the limit, under a
\* recent valence that differs from the one of the cycle before
C37_Witness ==
    /\ lastOp = "recall"
    /\ evolves >= 1
    /\ Len(recalled) = TopLimit
    /\ Len(recalled) < Len(store)
    /\ recentValence = 1000
    /\ \E k \in 1..Len(store) :
            /\ store[k].id \in StoreIds(recalled)
            /\ store[k].affect.valence < 0
            /\ store[k].score > 300

(*************************** properties of an error cycle *******************)
\* the controller runs at the end of a cycle that raised
ErrorAdjust == pc = "adjust" /\ pc' = "export" /\ cycle_error

\* C38: after a cycle that raised, the controller is called with a recalled
\* count of 0 and resilience 0.0, so the next sleep_sec is
\* min(15.0, s + 0.5 + 3.0) for the stored value s and is never below s
C38_ErrorCycleBacksOff ==
    [][ErrorAdjust =>
            /\ sleep_sec' = Min(15000, sleep_sec + 500 + 3000)
            /\ sleep_sec' >= sleep_sec]_vars

\* C38 amended: the same with each of the two steps rounded to two decimals
\* before it is capped at 15.0
C38_ErrorCycleBacksOffRounded ==
    [][ErrorAdjust =>
            /\ sleep_sec' = Min(15000, Rounded2(Min(15000,
                                    Rounded2(sleep_sec + 500)) + 3000))
            /\ Abs(sleep_sec' - Min(15000, sleep_sec + 3500)) < 10
            /\ sleep_sec' >= sleep_sec
            /\ returned'[1].sleep_sec = sleep_sec'
            /\ Len(rolling_errors') >= 1
            /\ rolling_errors'[Len(rolling_errors')] = 1]_vars

\* the controller has run after a cycle that raised with 2.254 stored by a
\* set_sleep command, and has slowed down and backed off to 5.75
C38_Witness ==
    /\ pc = "export"
    /\ cycle_error
    /\ rolling_errors # <<>>
    /\ rolling_errors[Len(rolling_errors)] = 1
    /\ returned # <<>>
    /\ returned[1].sleep_sec = sleep_sec
    /\ sleep_sec = 5750

(*************************** pending command specification ******************)
Rec20(id, content, tags, penalty, health) ==
    [Rec(id, content, tags, penalty, health) EXCEPT
        !.absent = {"affect"}, !.affect = BaseAffect]

\* the stores of 20.0 the command is pushed into
PendingStores ==
    {<<>>,
     <<Rec20(1, "x", <<1, 2, 3>>, 0, "ok")>>,
     <<Rec20(1, "x", <<1, 2, 3>>, 0, "ok"), Rec20(2, "y", <<1>>, 0, "ok")>>,
     <<Rec20(1, "x", <<1, 2, 3>>, 0, "ok"),
       Rec20(1, "x", <<1, 2, 3>>, 0, "ok")>>,
     <<Rec20(2, "", <<>>, 0, "ok"), Rec20(2, "z", <<>>, 300, "healed")>>,
     <<NonDict, Rec20(1, "5", <<>>, 0, "ok")>>}

\* the records a push_memory command holds
PushedItems ==
    {Rec(0, "y", <<1>>, 0, "ok"),
     Rec(0, "x", <<3, 2, 1>>, 0, "ok"),
     Rec(1, "v", <<>>, 0, "ok"),
     Rec(0, "#5", <<>>, 0, "ok"),
     [Rec(0, "z", <<1>>, 0, "ok") EXCEPT !.bad = {"tags"}],
     Rec(0, "w", <<0 - 1, 1>>, 0, "ok")}

\* documents of the owner with push_memory and without clear_commands
PendingDocs == {OwnedDoc(PushDoc(item), OwnerId) : item \in PushedItems}

InitPending ==
    /\ InitStore(PendingStores)
    /\ InitAutoFrom(PendingDocs, NoEffects20)
    /\ InitLoop({<<>>})
    /\ NoCounts
    /\ audit = <<>>
    /\ seal = [p \in Artifacts |->
                 IF p \in {"memory", "session", "audit", "commands"}
                 THEN "sealed" ELSE "missing"]
    /\ NoFile
    /\ NoTrust
    /\ NoRequest
    /\ NoLate

\* the import phase of a cycle
PendingImport ==
    /\ imports = cycles
    /\ ImportCommands20

\* the Heal phase of a cycle; the phases after it leave the list of records
\* as long as it is
PendingHeal ==
    /\ imports = cycles + 1
    /\ HealRecords20
    /\ cycles' = cycles + 1
    /\ UNCHANGED <<autoVars, reflection, pc, cycle_error, exported,
                   countVars, sealVars, mirrorVars, lateVars>>

NextPending == PendingImport \/ PendingHeal

SpecPending == InitPending /\ [][NextPending]_vars

(*************************** properties of a pending command ****************)
\* the Heal phase of a cycle is over
AfterHealPhase == cycles >= 1 /\ imports = cycles

SigOf(r) == <<r.content, Sorted(r.tags)>>

PushedSig == SigOf(NormalizeItem20(commands.push_memory, 0, 0))

WithPushedSig == {k \in 1..Len(store) : SigOf(store[k]) = PushedSig}

KeepsOneOfPushed ==
    /\ Cardinality(WithPushedSig) = 1
    /\ \A k \in WithPushedSig :
            /\ lastOp = "heal"
            /\ \A i \in 1..Len(prev) :
                    SigOf(NormalizeItem20(prev[i], 0, 0)) = PushedSig
                        => origin[k] <= i
    /\ cycles >= 2 =>
            /\ Len(store) = pulse.post_health.total
            /\ pulse.post_health.total = prevPulse.post_health.total

\* C39: while a push_memory command of the owner stays in the inbox, after
\* the Heal phase of every cycle the store holds exactly one record with the
\* pushed signature, the earliest one, and is as long as it was after the
\* Heal phase of the cycle before
C39_ReingestKeepsSize == AfterHealPhase => KeepsOneOfPushed

\* the same for pushed records whose tags can be sorted
ReingestSortableKeepsSize ==
    (AfterHealPhase /\ ~SortRaises(commands.push_memory.tags))
        => KeepsOneOfPushed

\* the command was applied a second time and Heal dropped the new record
ReingestDropped ==
    /\ AfterHealPhase
    /\ cycles >= 2
    /\ lastOp = "heal"
    /\ effects.pushed = 1
    /\ pulse.repairs.dedup_signature >= 1
    /\ Len(store) = Len(prev) - 1

====
